---- MODULE Spec2Model ----
(***************************************************************************)
(* job-radar: the persistent posting store (init_db / upsert_jobs), the    *)
(* staleness rule and scoring heuristic it applies, the collect_once       *)
(* orchestrator that merges the results of the fetch tasks into it, the    *)
(* safety gateway, the request throttler and the retrying HTTP client.     *)
(***************************************************************************)
EXTENDS Integers, Sequences, FiniteSets, TLC

VARIABLES
    clock,          \* the wall clock, an instant in ticks since the model's epoch
    store,          \* table jobs: the set of its rows
    pc,             \* collect_once: "idle", "fetching" (as_completed loop), "merging" (upsert_jobs loop)
    opts,           \* collect_once keyword arguments days_back_posted, require_posted_at, max_per_source
    cutoff_utc,     \* collect_once local cutoff_utc (None or an instant)
    pending,        \* futures not yet yielded by as_completed
    all_jobs,       \* collect_once local all_jobs, then upsert_jobs argument jobs
    errors,         \* collect_once local errors: per source, the tasks that raised
    now_seen_iso,   \* upsert_jobs local now_seen_iso
    idx,            \* upsert_jobs: position of the for loop in jobs
    counts,         \* upsert_jobs locals inserted, updated_existing, skipped_stale, skipped_invalid
    results,        \* history: the tasks that returned and the postings kept of each, in completion order
    store0,         \* history: the store when the upsert_jobs call under way was entered
    store_prev,     \* history: the store before the last step
    outcomes,       \* history: what each loop iteration of the upsert_jobs call did with its posting
    stepped,        \* history: the last step was a loop iteration of upsert_jobs
    repeated,       \* history: the upsert_jobs call under way was given the list of the call before it
    mono,           \* time.monotonic(), in seconds
    dns,            \* what socket.getaddrinfo answers for the hostname at present
    host_cache,     \* _HOST_SAFETY_CACHE
    thr_default,    \* RequestThrottler.default_min_interval_sec (None: no throttler constructed yet)
    next_allowed,   \* RequestThrottler._next_allowed
    call,           \* per worker thread, the http_*_with_retry call it is in
    delays,         \* history: the seconds that passed with no sleeping worker due
    hold,           \* history: the latest instant a 429 response asked the host's clients to wait for
    last_req,       \* history: the last request sent
    pg,             \* the paginated connector call under way: its locals and, as history, the offsets it requested
    grants,         \* history: the last two grants of a slot by RequestThrottler.wait
    val,            \* the last token validator call: its connector, the endpoint's answer, its outcome
    finder,         \* the find_career_page call under way: its locals and, as history, its requests
    filt,           \* the last job_passes_filters call: its arguments and what it returned
    feed,           \* the last _query_jobs_for_feed call: its limit and the list it returned
    dfr,            \* history: the last RequestThrottler.defer call, its arguments and whether it kept the stored time
    cf,             \* the last connector call: its items and the postings it returned
    robots,         \* RobotsChecker._cache: per site, the robots.txt that was loaded
    ws,             \* the fetch_webscrape call under way: its locals and, as history, its requests
    kl,             \* the extend_limited call of collect_once under way: options, fetched list, kept list
    tl,             \* a RequestThrottler with its lock: holder, _next_allowed, the clock, the threads in it
    pl,             \* pipeline_update: the state file, the run under way and, as history, the runs before
    vp,             \* _run_validator_parallel: its futures, its two lists and the files it writes
    cm,             \* the career-URL mapping file and the discovery pass under way
    sg              \* SafeHTTPSession.safe_get: the call under way and, as history, its requests

collectVars == <<clock, store, pc, opts, cutoff_utc, pending, all_jobs, errors, now_seen_iso, idx,
                 counts, results, store0, store_prev, outcomes, stepped, repeated>>

netVars == <<mono, dns, host_cache, thr_default, next_allowed, call, delays, hold, last_req, grants>>

validationVars == <<val, finder>>

connVars == <<filt, feed, dfr, cf, robots, ws>>

lateVars == <<kl, tl, pl, vp, cm, sg>>

vars == <<collectVars, netVars, pg, validationVars, connVars, lateVars>>

-----------------------------------------------------------------------------
(* Bounds of the model *)

\* clock resolution: ticks per day
TicksPerDay == 2

\* how many postings one upstream response carries at most
MaxJobsPerTask == 1

\* the largest configured minimum request interval, in seconds
MaxInterval == 2

\* the largest max_retries a call is given
MaxRetries == 1

\* how many times a worker calls RequestThrottler.wait or RequestThrottler.defer of its own
MaxWaits == 2

\* how many seconds may pass with no sleeping worker due
MaxDelays == 1

\* how many calls of wait and defer the threads of the locked throttler make in all
MaxLockCalls == 3

\* how many times pipeline_update is run
MaxPipelineRuns == 3

\* how many tokens the master list holds
MaxTokens == 2

\* how many discovery passes are run
MaxValidationPasses == 2

\* how many postings a board holds beyond those a token validator looks at
MaxBeyondScan == 1

(* Program constants *)

MAX_POSTING_AGE_DAYS == 90

\* TIMEZONE = "America/Chicago", west of UTC: its UTC offset in ticks, rounded to a whole tick
ChicagoOffset == -1

\* jobs[:50] / data[:50]: the postings a token validator looks at
ValidatorScan == 50

\* out[:5]: the name variants find_career_page keeps
MaxNameVariants == 5

\* the characters of a page the career page heuristic reads
MAX_HTML_PARSE_SIZE == 2097152

-----------------------------------------------------------------------------
(* Optional values: Python None / SQL NULL *)

None == <<>>

Some(x) == <<x>>

Max(a, b) == IF a >= b THEN a ELSE b

\* s[:n]
Take(s, n) == SubSeq(s, 1, IF Len(s) < n THEN Len(s) ELSE n)

-----------------------------------------------------------------------------
(* Text.  A string is named by a TLA+ string; Chars gives its characters,  *)
(* on which normalize_text and the substring test work.                    *)

Chars ==
       "" :> <<>>
    @@ "Data Scientist" :> <<"D", "a", "t", "a", " ", "S", "c", "i", "e", "n", "t", "i", "s", "t">>
    @@ "Senior Data Engineer" :> <<"S", "e", "n", "i", "o", "r", " ", "D", "a", "t", "a", " ", "E", "n", "g", "i", "n", "e", "e", "r">>
    @@ "Data Engineer II" :> <<"D", "a", "t", "a", " ", "E", "n", "g", "i", "n", "e", "e", "r", " ", "I", "I">>
    @@ "Remote" :> <<"R", "e", "m", "o", "t", "e">>
    @@ "Austin, TX" :> <<"A", "u", "s", "t", "i", "n", ",", " ", "T", "X">>
    @@ "Python and SQL" :> <<"P", "y", "t", "h", "o", "n", " ", "a", "n", "d", " ", "S", "Q", "L">>
    @@ "clinical research" :> <<"c", "l", "i", "n", "i", "c", "a", "l", " ", "r", "e", "s", "e", "a", "r", "c", "h">>
    @@ "remote" :> <<"r", "e", "m", "o", "t", "e">>
    @@ "senior" :> <<"s", "e", "n", "i", "o", "r">>
    @@ "staff" :> <<"s", "t", "a", "f", "f">>
    @@ "principal" :> <<"p", "r", "i", "n", "c", "i", "p", "a", "l">>
    @@ "lead" :> <<"l", "e", "a", "d">>
    @@ " ii" :> <<" ", "i", "i">>
    @@ " iii" :> <<" ", "i", "i", "i">>
    @@ " 2" :> <<" ", "2">>
    @@ " 3" :> <<" ", "3">>
    @@ "engineer" :> <<"e", "n", "g", "i", "n", "e", "e", "r">>
    @@ "scientist" :> <<"s", "c", "i", "e", "n", "t", "i", "s", "t">>
    @@ "analyst" :> <<"a", "n", "a", "l", "y", "s", "t">>
    @@ "python" :> <<"p", "y", "t", "h", "o", "n">>
    @@ "r programming" :> <<"r", " ", "p", "r", "o", "g", "r", "a", "m", "m", "i", "n", "g">>
    @@ "sql" :> <<"s", "q", "l">>
    @@ "spark" :> <<"s", "p", "a", "r", "k">>
    @@ "aws" :> <<"a", "w", "s">>
    @@ "azure" :> <<"a", "z", "u", "r", "e">>
    @@ "gcp" :> <<"g", "c", "p">>
    @@ "tableau" :> <<"t", "a", "b", "l", "e", "a", "u">>
    @@ "power bi" :> <<"p", "o", "w", "e", "r", " ", "b", "i">>
    @@ "looker" :> <<"l", "o", "o", "k", "e", "r">>
    @@ "pytorch" :> <<"p", "y", "t", "o", "r", "c", "h">>
    @@ "tensorflow" :> <<"t", "e", "n", "s", "o", "r", "f", "l", "o", "w">>
    @@ "scikit-learn" :> <<"s", "c", "i", "k", "i", "t", "-", "l", "e", "a", "r", "n">>
    @@ "healthcare" :> <<"h", "e", "a", "l", "t", "h", "c", "a", "r", "e">>
    @@ "medical" :> <<"m", "e", "d", "i", "c", "a", "l">>
    @@ "clinical" :> <<"c", "l", "i", "n", "i", "c", "a", "l">>
    @@ "education" :> <<"e", "d", "u", "c", "a", "t", "i", "o", "n">>
    @@ "university" :> <<"u", "n", "i", "v", "e", "r", "s", "i", "t", "y">>
    @@ "research" :> <<"r", "e", "s", "e", "a", "r", "c", "h">>
    @@ "Senior Data Scientist" :> <<"S", "e", "n", "i", "o", "r", " ", "D", "a", "t", "a", " ", "S", "c", "i", "e", "n", "t", "i", "s", "t">>
    @@ "  MACHINE   Learning Engineer " :> <<" ", " ", "M", "A", "C", "H", "I", "N", "E", " ", " ", " ", "L", "e", "a", "r", "n", "i", "n", "g", " ", "E", "n", "g", "i", "n", "e", "e", "r", " ">>
    @@ "MACHINE   Learning Engineer" :> <<"M", "A", "C", "H", "I", "N", "E", " ", " ", " ", "L", "e", "a", "r", "n", "i", "n", "g", " ", "E", "n", "g", "i", "n", "e", "e", "r">>
    @@ "MACHINE Learning Engineer" :> <<"M", "A", "C", "H", "I", "N", "E", " ", "L", "e", "a", "r", "n", "i", "n", "g", " ", "E", "n", "g", "i", "n", "e", "e", "r">>
    @@ "Apply now" :> <<"A", "p", "p", "l", "y", " ", "n", "o", "w">>
    @@ "learn more" :> <<"l", "e", "a", "r", "n", " ", "m", "o", "r", "e">>
    @@ "read more" :> <<"r", "e", "a", "d", " ", "m", "o", "r", "e">>
    @@ "details" :> <<"d", "e", "t", "a", "i", "l", "s">>
    @@ "apply now" :> <<"a", "p", "p", "l", "y", " ", "n", "o", "w">>
    @@ "view" :> <<"v", "i", "e", "w">>
    @@ "view details" :> <<"v", "i", "e", "w", " ", "d", "e", "t", "a", "i", "l", "s">>
    @@ "more" :> <<"m", "o", "r", "e">>
    @@ "International Data Analyst" :> <<"I", "n", "t", "e", "r", "n", "a", "t", "i", "o", "n", "a", "l", " ", "D", "a", "t", "a", " ", "A", "n", "a", "l", "y", "s", "t">>
    @@ "Contract ML Engineer" :> <<"C", "o", "n", "t", "r", "a", "c", "t", " ", "M", "L", " ", "E", "n", "g", "i", "n", "e", "e", "r">>
    @@ "Software Engineer - AI" :> <<"S", "o", "f", "t", "w", "a", "r", "e", " ", "E", "n", "g", "i", "n", "e", "e", "r", " ", "-", " ", "A", "I">>
    @@ "Data  Science Manager" :> <<"D", "a", "t", "a", " ", " ", "S", "c", "i", "e", "n", "c", "e", " ", "M", "a", "n", "a", "g", "e", "r">>
    @@ "United States" :> <<"U", "n", "i", "t", "e", "d", " ", "S", "t", "a", "t", "e", "s">>
    @@ "Work From Home" :> <<"W", "o", "r", "k", " ", "F", "r", "o", "m", " ", "H", "o", "m", "e">>
    @@ "London, UK" :> <<"L", "o", "n", "d", "o", "n", ",", " ", "U", "K">>
    @@ "  " :> <<" ", " ">>
    @@ "Toronto, Canada" :> <<"T", "o", "r", "o", "n", "t", "o", ",", " ", "C", "a", "n", "a", "d", "a">>
    @@ "Austin,TX" :> <<"A", "u", "s", "t", "i", "n", ",", "T", "X">>
    @@ "Data Analyst" :> <<"D", "a", "t", "a", " ", "A", "n", "a", "l", "y", "s", "t">>
    @@ "https://jobs." :> <<"h", "t", "t", "p", "s", ":", "/", "/", "j", "o", "b", "s", ".">>
    @@ ".com" :> <<".", "c", "o", "m">>
    @@ "https://careers." :> <<"h", "t", "t", "p", "s", ":", "/", "/", "c", "a", "r", "e", "e", "r", "s", ".">>
    @@ "https://www." :> <<"h", "t", "t", "p", "s", ":", "/", "/", "w", "w", "w", ".">>
    @@ ".com/careers" :> <<".", "c", "o", "m", "/", "c", "a", "r", "e", "e", "r", "s">>
    @@ "https://" :> <<"h", "t", "t", "p", "s", ":", "/", "/">>
    @@ ".com/jobs" :> <<".", "c", "o", "m", "/", "j", "o", "b", "s">>
    @@ ".com/careers/jobs" :> <<".", "c", "o", "m", "/", "c", "a", "r", "e", "e", "r", "s", "/", "j", "o", "b", "s">>
    @@ ".com/company/careers" :> <<".", "c", "o", "m", "/", "c", "o", "m", "p", "a", "n", "y", "/", "c", "a", "r", "e", "e", "r", "s">>
    @@ ".com/careers/" :> <<".", "c", "o", "m", "/", "c", "a", "r", "e", "e", "r", "s", "/">>
    @@ ".io" :> <<".", "i", "o">>
    @@ ".io/careers" :> <<".", "i", "o", "/", "c", "a", "r", "e", "e", "r", "s">>
    @@ ".co/careers" :> <<".", "c", "o", "/", "c", "a", "r", "e", "e", "r", "s">>
    @@ ".ai/careers" :> <<".", "a", "i", "/", "c", "a", "r", "e", "e", "r", "s">>
    @@ "https://boards.greenhouse.io/" :> <<"h", "t", "t", "p", "s", ":", "/", "/", "b", "o", "a", "r", "d", "s", ".", "g", "r", "e", "e", "n", "h", "o", "u", "s", "e", ".", "i", "o", "/">>
    @@ "https://job-boards.greenhouse.io/" :> <<"h", "t", "t", "p", "s", ":", "/", "/", "j", "o", "b", "-", "b", "o", "a", "r", "d", "s", ".", "g", "r", "e", "e", "n", "h", "o", "u", "s", "e", ".", "i", "o", "/">>
    @@ "https://jobs.lever.co/" :> <<"h", "t", "t", "p", "s", ":", "/", "/", "j", "o", "b", "s", ".", "l", "e", "v", "e", "r", ".", "c", "o", "/">>
    @@ "https://jobs.ashbyhq.com/" :> <<"h", "t", "t", "p", "s", ":", "/", "/", "j", "o", "b", "s", ".", "a", "s", "h", "b", "y", "h", "q", ".", "c", "o", "m", "/">>
    @@ "https://jobs.smartrecruiters.com/" :> <<"h", "t", "t", "p", "s", ":", "/", "/", "j", "o", "b", "s", ".", "s", "m", "a", "r", "t", "r", "e", "c", "r", "u", "i", "t", "e", "r", "s", ".", "c", "o", "m", "/">>
    @@ ".bamboohr.com/careers" :> <<".", "b", "a", "m", "b", "o", "o", "h", "r", ".", "c", "o", "m", "/", "c", "a", "r", "e", "e", "r", "s">>
    @@ "https://jobs.jobvite.com/" :> <<"h", "t", "t", "p", "s", ":", "/", "/", "j", "o", "b", "s", ".", "j", "o", "b", "v", "i", "t", "e", ".", "c", "o", "m", "/">>
    @@ "https://apply.workable.com/" :> <<"h", "t", "t", "p", "s", ":", "/", "/", "a", "p", "p", "l", "y", ".", "w", "o", "r", "k", "a", "b", "l", "e", ".", "c", "o", "m", "/">>
    @@ ".workable.com" :> <<".", "w", "o", "r", "k", "a", "b", "l", "e", ".", "c", "o", "m">>
    @@ ".icims.com/jobs" :> <<".", "i", "c", "i", "m", "s", ".", "c", "o", "m", "/", "j", "o", "b", "s">>
    @@ ".wd5.myworkdayjobs.com" :> <<".", "w", "d", "5", ".", "m", "y", "w", "o", "r", "k", "d", "a", "y", "j", "o", "b", "s", ".", "c", "o", "m">>
    @@ ".wd1.myworkdayjobs.com" :> <<".", "w", "d", "1", ".", "m", "y", "w", "o", "r", "k", "d", "a", "y", "j", "o", "b", "s", ".", "c", "o", "m">>
    @@ "greenhouse.io" :> <<"g", "r", "e", "e", "n", "h", "o", "u", "s", "e", ".", "i", "o">>
    @@ "lever.co" :> <<"l", "e", "v", "e", "r", ".", "c", "o">>
    @@ "ashbyhq.com" :> <<"a", "s", "h", "b", "y", "h", "q", ".", "c", "o", "m">>
    @@ "smartrecruiters.com" :> <<"s", "m", "a", "r", "t", "r", "e", "c", "r", "u", "i", "t", "e", "r", "s", ".", "c", "o", "m">>
    @@ "myworkdayjobs.com" :> <<"m", "y", "w", "o", "r", "k", "d", "a", "y", "j", "o", "b", "s", ".", "c", "o", "m">>
    @@ "icims.com" :> <<"i", "c", "i", "m", "s", ".", "c", "o", "m">>
    @@ "jobvite.com" :> <<"j", "o", "b", "v", "i", "t", "e", ".", "c", "o", "m">>
    @@ "bamboohr.com" :> <<"b", "a", "m", "b", "o", "o", "h", "r", ".", "c", "o", "m">>
    @@ "workable.com" :> <<"w", "o", "r", "k", "a", "b", "l", "e", ".", "c", "o", "m">>
    @@ "/wday/cxs/" :> <<"/", "w", "d", "a", "y", "/", "c", "x", "s", "/">>
    @@ "workday" :> <<"w", "o", "r", "k", "d", "a", "y">>
    @@ "job" :> <<"j", "o", "b">>
    @@ "career" :> <<"c", "a", "r", "e", "e", "r">>
    @@ "position" :> <<"p", "o", "s", "i", "t", "i", "o", "n">>
    @@ "opening" :> <<"o", "p", "e", "n", "i", "n", "g">>
    @@ "opportunity" :> <<"o", "p", "p", "o", "r", "t", "u", "n", "i", "t", "y">>
    @@ "hiring" :> <<"h", "i", "r", "i", "n", "g">>
    @@ "apply" :> <<"a", "p", "p", "l", "y">>
    @@ "Acme Corp" :> <<"A", "c", "m", "e", " ", "C", "o", "r", "p">>
    @@ "acme" :> <<"a", "c", "m", "e">>
    @@ "&-&" :> <<"&", "-", "&">>
    @@ "Apply for a job: careers" :> <<"A", "p", "p", "l", "y", " ", "f", "o", "r", " ", "a", " ", "j", "o", "b", ":", " ", "c", "a", "r", "e", "e", "r", "s">>
    @@ "We are hiring" :> <<"W", "e", " ", "a", "r", "e", " ", "h", "i", "r", "i", "n", "g">>
    @@ "Powered by Workday" :> <<"P", "o", "w", "e", "r", "e", "d", " ", "b", "y", " ", "W", "o", "r", "k", "d", "a", "y">>
    @@ "Page not found" :> <<"P", "a", "g", "e", " ", "n", "o", "t", " ", "f", "o", "u", "n", "d">>
    @@ "data scientist" :> <<"d", "a", "t", "a", " ", "s", "c", "i", "e", "n", "t", "i", "s", "t">>
    @@ "data analyst" :> <<"d", "a", "t", "a", " ", "a", "n", "a", "l", "y", "s", "t">>
    @@ "data engineer" :> <<"d", "a", "t", "a", " ", "e", "n", "g", "i", "n", "e", "e", "r">>
    @@ "analytics engineer" :> <<"a", "n", "a", "l", "y", "t", "i", "c", "s", " ", "e", "n", "g", "i", "n", "e", "e", "r">>
    @@ "business intelligence" :> <<"b", "u", "s", "i", "n", "e", "s", "s", " ", "i", "n", "t", "e", "l", "l", "i", "g", "e", "n", "c", "e">>
    @@ "bi developer" :> <<"b", "i", " ", "d", "e", "v", "e", "l", "o", "p", "e", "r">>
    @@ "machine learning" :> <<"m", "a", "c", "h", "i", "n", "e", " ", "l", "e", "a", "r", "n", "i", "n", "g">>
    @@ "ml engineer" :> <<"m", "l", " ", "e", "n", "g", "i", "n", "e", "e", "r">>
    @@ "ai engineer" :> <<"a", "i", " ", "e", "n", "g", "i", "n", "e", "e", "r">>
    @@ "artificial intelligence" :> <<"a", "r", "t", "i", "f", "i", "c", "i", "a", "l", " ", "i", "n", "t", "e", "l", "l", "i", "g", "e", "n", "c", "e">>
    @@ "research scientist" :> <<"r", "e", "s", "e", "a", "r", "c", "h", " ", "s", "c", "i", "e", "n", "t", "i", "s", "t">>
    @@ "applied scientist" :> <<"a", "p", "p", "l", "i", "e", "d", " ", "s", "c", "i", "e", "n", "t", "i", "s", "t">>
    @@ "research engineer" :> <<"r", "e", "s", "e", "a", "r", "c", "h", " ", "e", "n", "g", "i", "n", "e", "e", "r">>
    @@ "machine learning researcher" :> <<"m", "a", "c", "h", "i", "n", "e", " ", "l", "e", "a", "r", "n", "i", "n", "g", " ", "r", "e", "s", "e", "a", "r", "c", "h", "e", "r">>
    @@ "ai researcher" :> <<"a", "i", " ", "r", "e", "s", "e", "a", "r", "c", "h", "e", "r">>
    @@ "quantitative analyst" :> <<"q", "u", "a", "n", "t", "i", "t", "a", "t", "i", "v", "e", " ", "a", "n", "a", "l", "y", "s", "t">>
    @@ "quantitative researcher" :> <<"q", "u", "a", "n", "t", "i", "t", "a", "t", "i", "v", "e", " ", "r", "e", "s", "e", "a", "r", "c", "h", "e", "r">>
    @@ "quant developer" :> <<"q", "u", "a", "n", "t", " ", "d", "e", "v", "e", "l", "o", "p", "e", "r">>
    @@ "data science manager" :> <<"d", "a", "t", "a", " ", "s", "c", "i", "e", "n", "c", "e", " ", "m", "a", "n", "a", "g", "e", "r">>
    @@ "analytics manager" :> <<"a", "n", "a", "l", "y", "t", "i", "c", "s", " ", "m", "a", "n", "a", "g", "e", "r">>
    @@ "ml manager" :> <<"m", "l", " ", "m", "a", "n", "a", "g", "e", "r">>
    @@ "software engineer, ml" :> <<"s", "o", "f", "t", "w", "a", "r", "e", " ", "e", "n", "g", "i", "n", "e", "e", "r", ",", " ", "m", "l">>
    @@ "software engineer - machine learning" :> <<"s", "o", "f", "t", "w", "a", "r", "e", " ", "e", "n", "g", "i", "n", "e", "e", "r", " ", "-", " ", "m", "a", "c", "h", "i", "n", "e", " ", "l", "e", "a", "r", "n", "i", "n", "g">>
    @@ "software engineer - ai" :> <<"s", "o", "f", "t", "w", "a", "r", "e", " ", "e", "n", "g", "i", "n", "e", "e", "r", " ", "-", " ", "a", "i">>
    @@ "backend engineer - data" :> <<"b", "a", "c", "k", "e", "n", "d", " ", "e", "n", "g", "i", "n", "e", "e", "r", " ", "-", " ", "d", "a", "t", "a">>
    @@ "intern" :> <<"i", "n", "t", "e", "r", "n">>
    @@ "internship" :> <<"i", "n", "t", "e", "r", "n", "s", "h", "i", "p">>
    @@ "co-op" :> <<"c", "o", "-", "o", "p">>
    @@ "contract" :> <<"c", "o", "n", "t", "r", "a", "c", "t">>
    @@ "temporary" :> <<"t", "e", "m", "p", "o", "r", "a", "r", "y">>
    @@ "part-time" :> <<"p", "a", "r", "t", "-", "t", "i", "m", "e">>
    @@ "work from home" :> <<"w", "o", "r", "k", " ", "f", "r", "o", "m", " ", "h", "o", "m", "e">>
    @@ "wfh" :> <<"w", "f", "h">>
    @@ "united states" :> <<"u", "n", "i", "t", "e", "d", " ", "s", "t", "a", "t", "e", "s">>
    @@ " us" :> <<" ", "u", "s">>
    @@ " usa" :> <<" ", "u", "s", "a">>
    @@ "Account Executive" :> <<"A", "c", "c", "o", "u", "n", "t", " ", "E", "x", "e", "c", "u", "t", "i", "v", "e">>
    @@ "Data Analyst Intern" :> <<"D", "a", "t", "a", " ", "A", "n", "a", "l", "y", "s", "t", " ", "I", "n", "t", "e", "r", "n">>
    @@ "Berlin, Germany" :> <<"B", "e", "r", "l", "i", "n", ",", " ", "G", "e", "r", "m", "a", "n", "y">>
    @@ "Bengaluru, India" :> <<"B", "e", "n", "g", "a", "l", "u", "r", "u", ",", " ", "I", "n", "d", "i", "a">>
    @@ "Seattle WA US" :> <<"S", "e", "a", "t", "t", "l", "e", " ", "W", "A", " ", "U", "S">>

LowerMap ==
       "A" :> "a" @@ "B" :> "b" @@ "C" :> "c" @@ "D" :> "d" @@ "E" :> "e" @@ "F" :> "f" @@ "G" :> "g"
    @@ "H" :> "h" @@ "I" :> "i" @@ "J" :> "j" @@ "K" :> "k" @@ "L" :> "l" @@ "M" :> "m" @@ "N" :> "n"
    @@ "O" :> "o" @@ "P" :> "p" @@ "Q" :> "q" @@ "R" :> "r" @@ "S" :> "s" @@ "T" :> "t" @@ "U" :> "u"
    @@ "V" :> "v" @@ "W" :> "w" @@ "X" :> "x" @@ "Y" :> "y" @@ "Z" :> "z"

IsSpace(c) == c \in {" ", "\t", "\n", "\r"}

Lower(c) == IF c \in DOMAIN LowerMap THEN LowerMap[c] ELSE c

RECURSIVE LStrip(_)
LStrip(s) == IF s = <<>> THEN <<>> ELSE IF IsSpace(Head(s)) THEN LStrip(Tail(s)) ELSE s

RECURSIVE RStrip(_)
RStrip(s) ==
    IF s = <<>> THEN <<>>
    ELSE IF IsSpace(s[Len(s)]) THEN RStrip(SubSeq(s, 1, Len(s) - 1)) ELSE s

\* re.sub(r"\s+", " ", .): every run of whitespace becomes one space
RECURSIVE CollapseSpaces(_)
CollapseSpaces(s) ==
    IF s = <<>> THEN <<>>
    ELSE IF IsSpace(Head(s))
         THEN <<" ">> \o CollapseSpaces(LStrip(s))
         ELSE <<Head(s)>> \o CollapseSpaces(Tail(s))

\* normalize_text(s): re.sub(r"\s+", " ", (s or "").strip().lower()), as characters
normalize_text(s) ==
    LET cs == Chars[s]
        stripped == RStrip(LStrip(cs))
        lowered == [i \in 1..Len(stripped) |-> Lower(stripped[i])]
    IN CollapseSpaces(lowered)

\* Python's `kw in text` on strings: kw is a contiguous substring of text
HasSubstring(text, kw) ==
    \E i \in 1..(Len(text) - Len(kw) + 1) : SubSeq(text, i, i + Len(kw) - 1) = kw

KwIn(kw, text) == HasSubstring(text, Chars[kw])

skill_keywords ==
    << <<"python", 1>>, <<"r programming", 1>>, <<"sql", 1>>,
       <<"spark", 1>>, <<"aws", 1>>, <<"azure", 1>>, <<"gcp", 1>>,
       <<"tableau", 1>>, <<"power bi", 1>>, <<"looker", 1>>,
       <<"pytorch", 1>>, <<"tensorflow", 1>>, <<"scikit-learn", 1>>,
       <<"healthcare", 2>>, <<"medical", 2>>, <<"clinical", 2>>,
       <<"education", 1>>, <<"university", 1>>, <<"research", 1>> >>

RECURSIVE SkillPoints(_, _)
SkillPoints(desc, i) ==
    IF i > Len(skill_keywords) THEN 0
    ELSE (IF KwIn(skill_keywords[i][1], desc) THEN skill_keywords[i][2] ELSE 0)
         + SkillPoints(desc, i + 1)

score_job(title, location, description) ==
    LET t == normalize_text(title)
        loc == normalize_text(location)
        desc == normalize_text(description)
    IN    (IF KwIn("remote", loc) THEN 2 ELSE 0)
        - (IF \E x \in {"senior", "staff", "principal", "lead"} : KwIn(x, t) THEN 1 ELSE 0)
        + (IF \E x \in {" ii", " iii", " 2", " 3"} : KwIn(x, t) THEN 1 ELSE 0)
        + (IF KwIn("engineer", t) THEN 1 ELSE 0)
        + (IF KwIn("scientist", t) THEN 1 ELSE 0)
        + (IF KwIn("analyst", t) THEN 1 ELSE 0)
        + SkillPoints(desc, 1)

\* the texts the model's postings are made of
PostingTexts ==
    {"", "Data Scientist", "Senior Data Engineer", "Data Engineer II", "Remote", "Austin, TX",
     "Python and SQL", "clinical research"}

\* score_job on those texts, evaluated once
score_of ==
    [title \in PostingTexts, location \in PostingTexts, description \in PostingTexts |->
        score_job(title, location, description)]

-----------------------------------------------------------------------------
(* Time.  A timezone-aware datetime is its wall-clock reading and its UTC  *)
(* offset, both in ticks; two datetimes denote the same instant when their *)
(* wall - off agree.                                                       *)

\* the model follows the clock over the day in which a posting dated PostedEarly
\* passes from exactly MAX_POSTING_AGE_DAYS to exactly MAX_POSTING_AGE_DAYS + 1 days of age
ClockStart == MAX_POSTING_AGE_DAYS * TicksPerDay

ClockEnd == ClockStart + TicksPerDay

now_local == [wall |-> clock + ChicagoOffset, off |-> ChicagoOffset]

\* a datetime parsed with utc=True
UtcTime(t) == [wall |-> t, off |-> 0]

astimezone(dt, off) == [wall |-> dt.wall - dt.off + off, off |-> off]

\* aware datetime subtraction, as a timedelta in ticks
TimeDelta(a, b) == (a.wall - a.off) - (b.wall - b.off)

\* dt.astimezone(tz.UTC).isoformat(): the UTC reading, which is what the text spells
to_iso_utc(dt) == astimezone(dt, 0).wall

parse_any_datetime(value) == IF value = None THEN None ELSE Some(UtcTime(value[1]))

is_stale_postingGE(posted_at) ==
    IF posted_at = None THEN FALSE
    ELSE LET age == TimeDelta(now_local, astimezone(posted_at[1], ChicagoOffset))
         IN (age \div TicksPerDay) >= MAX_POSTING_AGE_DAYS

\* timedelta.days is the floor of the difference in days
is_stale_posting(posted_at) ==
    IF posted_at = None THEN FALSE
    ELSE LET age == TimeDelta(now_local, astimezone(posted_at[1], ChicagoOffset))
         IN (age \div TicksPerDay) > MAX_POSTING_AGE_DAYS

-----------------------------------------------------------------------------
(* Data model *)

Job(source, job_id, title, company, location, url, posted_at, first_seen_at, description) ==
    [source |-> source, job_id |-> job_id, title |-> title, company |-> company,
     location |-> location, url |-> url, posted_at |-> posted_at,
     first_seen_at |-> first_seen_at, description |-> description]

posted_at_iso(j) == IF j.posted_at /= None THEN Some(to_iso_utc(j.posted_at[1])) ELSE None

first_seen_at_iso(j) == to_iso_utc(j.first_seen_at)

-----------------------------------------------------------------------------
(* The store: table jobs *)

\* the row of the INSERT's VALUES clause (excluded.* on conflict)
InsertValues(j, now_seen, sc) ==
    [source |-> j.source, job_id |-> j.job_id, title |-> j.title, company |-> j.company,
     location |-> j.location, url |-> j.url, posted_at |-> posted_at_iso(j),
     first_seen_at |-> first_seen_at_iso(j), last_seen_at |-> now_seen,
     description |-> Some(j.description), score |-> sc]

ConflictingRowsByTitle(s, row) ==
    {r \in s : r.source = row.source /\ r.job_id = row.job_id /\ r.title = row.title}

\* PRIMARY KEY (source, job_id) / ON CONFLICT(source, job_id): the rows the new row collides with
ConflictingRows(s, row) ==
    {r \in s : r.source = row.source /\ r.job_id = row.job_id}

COALESCE(a, b) == IF a /= None THEN a ELSE b

MergePostedAtLatest(old, excluded) == COALESCE(excluded, old)

\* posted_at = COALESCE(jobs.posted_at, excluded.posted_at)
MergePostedAt(old, excluded) == COALESCE(old, excluded)

MergeDescriptionLatest(old, excluded) ==
    IF excluded /= None /\ excluded /= Some("") THEN excluded ELSE old

\* description = CASE WHEN (jobs.description IS NULL OR jobs.description = '')
\*               AND (excluded.description IS NOT NULL AND excluded.description != '')
\*               THEN excluded.description ELSE jobs.description END
MergeDescription(old, excluded) ==
    IF (old = None \/ old = Some("")) /\ (excluded /= None /\ excluded /= Some(""))
    THEN excluded
    ELSE old

MergeScoreLatest(old, excluded) == excluded

MergeScoreSum(old, excluded) == old + excluded

\* score = MAX(jobs.score, excluded.score)
MergeScore(old, excluded) == Max(old, excluded)

DoUpdateSetAllColumns(old, excluded) ==
    [excluded EXCEPT !.first_seen_at = old.first_seen_at]

\* ON CONFLICT ... DO UPDATE SET: the stored row after the update
DoUpdateSet(old, excluded) ==
    [old EXCEPT !.last_seen_at = excluded.last_seen_at,
                !.posted_at = MergePostedAt(old.posted_at, excluded.posted_at),
                !.description = MergeDescription(old.description, excluded.description),
                !.score = MergeScore(old.score, excluded.score)]

\* INSERT INTO jobs ... ON CONFLICT(source, job_id) DO UPDATE SET ...
InsertOnConflictUpdate(s, row) ==
    LET hit == ConflictingRows(s, row)
    IN IF hit = {} THEN s \cup {row}
       ELSE (s \ hit) \cup {DoUpdateSet(r, row) : r \in hit}

\* the sanity check at the head of the loop body
IsInvalidJob(j) ==
    ~(j.source /= "" /\ j.job_id /= "" /\ j.title /= "" /\ j.company /= "" /\ j.url /= "")

UpsertJobPurgeStale(s, j, now_seen) ==
    IF IsInvalidJob(j) THEN s
    ELSE IF is_stale_posting(j.posted_at)
    THEN s \ ConflictingRows(s, InsertValues(j, now_seen, 0))
    ELSE InsertOnConflictUpdate(s, InsertValues(j, now_seen,
                                   score_of[j.title, j.location, j.description]))

\* one iteration of the for loop of upsert_jobs: the store it leaves
UpsertJob(s, j, now_seen) ==
    IF IsInvalidJob(j) THEN s
    ELSE IF is_stale_posting(j.posted_at) THEN s
    ELSE InsertOnConflictUpdate(s, InsertValues(j, now_seen,
                                   score_of[j.title, j.location, j.description]))

\* the whole loop, at one clock reading
RECURSIVE UpsertAll(_, _, _)
UpsertAll(s, jobs, now_seen) ==
    IF jobs = <<>> THEN s
    ELSE UpsertAll(UpsertJob(s, Head(jobs), now_seen), Tail(jobs), now_seen)

\* SELECT 1 FROM jobs WHERE source=? AND job_id=? AND first_seen_at < ? LIMIT 1
existed(s, j) ==
    \E r \in s : r.source = j.source /\ r.job_id = j.job_id
                 /\ r.first_seen_at < first_seen_at_iso(j)

ZeroCounts == [inserted |-> 0, updated_existing |-> 0, skipped_stale |-> 0, skipped_invalid |-> 0]

-----------------------------------------------------------------------------
(* Filter engine: job_passes_filters and what it rests on *)

ROLE_KEYWORDS ==
    {"data scientist", "data analyst", "data engineer", "analytics engineer",
     "business intelligence", "bi developer", "machine learning", "ml engineer", "ai engineer",
     "artificial intelligence", "research scientist", "applied scientist", "research engineer",
     "machine learning researcher", "ai researcher", "quantitative analyst",
     "quantitative researcher", "quant developer", "data science manager", "analytics manager",
     "ml manager", "software engineer, ml", "software engineer - machine learning",
     "software engineer - ai", "backend engineer - data"}

EXCLUDE_KEYWORDS == {"intern", "internship", "co-op", "contract", "temporary", "part-time"}

\* contains_any(text, keywords): some normalised keyword is a substring of the normalised text
contains_any(text, keywords) ==
    LET t == normalize_text(text)
    IN \E k \in keywords : HasSubstring(t, normalize_text(k))

\* the alternatives of the state-abbreviation pattern
StateCodes ==
    { <<"a", "l">>, <<"a", "k">>, <<"a", "z">>, <<"a", "r">>, <<"c", "a">>, <<"c", "o">>,
      <<"c", "t">>, <<"d", "e">>, <<"f", "l">>, <<"g", "a">>, <<"h", "i">>, <<"i", "a">>,
      <<"i", "d">>, <<"i", "l">>, <<"i", "n">>, <<"k", "s">>, <<"k", "y">>, <<"l", "a">>,
      <<"m", "a">>, <<"m", "d">>, <<"m", "e">>, <<"m", "i">>, <<"m", "n">>, <<"m", "o">>,
      <<"m", "s">>, <<"m", "t">>, <<"n", "c">>, <<"n", "d">>, <<"n", "e">>, <<"n", "h">>,
      <<"n", "j">>, <<"n", "m">>, <<"n", "v">>, <<"n", "y">>, <<"o", "h">>, <<"o", "k">>,
      <<"o", "r">>, <<"p", "a">>, <<"r", "i">>, <<"s", "c">>, <<"s", "d">>, <<"t", "n">>,
      <<"t", "x">>, <<"u", "t">>, <<"v", "a">>, <<"v", "t">>, <<"w", "a">>, <<"w", "i">>,
      <<"w", "v">>, <<"w", "y">> }

\* a character \b does not see a boundary before: a letter, a digit or the underscore
IsWordChar(c) ==
    c \in {"a", "b", "c", "d", "e", "f", "g", "h", "i", "j", "k", "l", "m", "n", "o", "p", "q",
           "r", "s", "t", "u", "v", "w", "x", "y", "z",
           "0", "1", "2", "3", "4", "5", "6", "7", "8", "9", "_"}

\* the position of the first character at or after i that is no whitespace (Len(s) + 1: none)
RECURSIVE SkipSpaces(_, _)
SkipSpaces(s, i) == IF i <= Len(s) /\ IsSpace(s[i]) THEN SkipSpaces(s, i + 1) ELSE i

\* re.search(r",\s*(al|ak|...|wy)\b", loc): a comma, whitespace, a state code, a word boundary
StateAfterComma(loc) ==
    \E i \in 1..Len(loc) :
        /\ loc[i] = ","
        /\ LET j == SkipSpaces(loc, i + 1)
           IN /\ j + 1 <= Len(loc)
              /\ <<loc[j], loc[j + 1]>> \in StateCodes
              /\ (j + 2 > Len(loc) \/ ~IsWordChar(loc[j + 2]))

\* str.endswith
EndsWith(text, suffix) ==
    Len(suffix) <= Len(text) /\ SubSeq(text, Len(text) - Len(suffix) + 1, Len(text)) = suffix

\* location_is_us_or_remote, with ALLOW_REMOTE and ALLOW_US both True
location_is_us_or_remote(location) ==
    LET loc == normalize_text(location)
    IN \/ KwIn("remote", loc) \/ KwIn("work from home", loc) \/ KwIn("wfh", loc)
       \/ KwIn("united states", loc)
       \/ EndsWith(loc, Chars[" us"]) \/ KwIn(" usa", loc) \/ EndsWith(loc, Chars[" usa"])
       \/ StateAfterComma(loc)

job_passes_filtersKeepsExcluded(title, location) ==
    IF ~contains_any(title, ROLE_KEYWORDS) THEN FALSE
    ELSE IF location /= "" /\ ~location_is_us_or_remote(location) THEN FALSE
    ELSE TRUE

job_passes_filters(title, location) ==
    IF ~contains_any(title, ROLE_KEYWORDS) THEN FALSE
    ELSE IF contains_any(title, EXCLUDE_KEYWORDS) THEN FALSE
    ELSE IF location /= "" /\ ~location_is_us_or_remote(location) THEN FALSE
    ELSE TRUE

FilterTitles ==
    {"", "Senior Data Scientist", "Data Analyst Intern", "Data Scientist", "Data Engineer II",
     "Account Executive", "  MACHINE   Learning Engineer ", "International Data Analyst",
     "Contract ML Engineer", "Software Engineer - AI", "Senior Data Engineer",
     "Data  Science Manager", "MACHINE   Learning Engineer", "MACHINE Learning Engineer",
     "Apply now"}

FilterLocations ==
    {"", "  ", "Remote", "Austin, TX", "Austin,TX", "Berlin, Germany", "Bengaluru, India",
     "Toronto, Canada", "Seattle WA US", "United States", "Work From Home", "London, UK"}

\* job_passes_filters on those titles and locations, evaluated once
filter_of == [t \in FilterTitles, l \in FilterLocations |-> job_passes_filters(t, l)]

-----------------------------------------------------------------------------
(* Upstreams and connectors *)

PostedEarly == ClockStart - MAX_POSTING_AGE_DAYS * TicksPerDay

PostedLate == PostedEarly + TicksPerDay - 1

\* what the Lever account "beta" may serve over time: opening 7 (re-dated, retitled,
\* described, or lacking its hosted URL) and opening 8
LeverItems ==
    { [id |-> "7", text |-> "Data Engineer II", location |-> "Austin, TX",
       hostedUrl |-> "https://jobs.lever.co/beta/7", descriptionPlain |-> "",
       createdAt |-> None],
      [id |-> "7", text |-> "Senior Data Engineer", location |-> "Remote",
       hostedUrl |-> "https://jobs.lever.co/beta/7", descriptionPlain |-> "Python and SQL",
       createdAt |-> Some(PostedEarly)],
      [id |-> "7", text |-> "Data Engineer II", location |-> "Austin, TX",
       hostedUrl |-> "https://jobs.lever.co/beta/7", descriptionPlain |-> "clinical research",
       createdAt |-> Some(PostedLate)],
      [id |-> "7", text |-> "Data Engineer II", location |-> "Austin, TX",
       hostedUrl |-> "", descriptionPlain |-> "", createdAt |-> Some(PostedLate)],
      [id |-> "8", text |-> "Data Scientist", location |-> "Remote",
       hostedUrl |-> "https://jobs.lever.co/beta/8", descriptionPlain |-> "",
       createdAt |-> None] }

RECURSIVE fetch_lever(_, _, _)
fetch_lever(company, data, seen) ==
    IF data = <<>> THEN <<>>
    ELSE LET item == Head(data)
             rest == fetch_lever(company, Tail(data), seen)
         IN IF item.id = "" THEN rest
            ELSE IF ~filter_of[item.text, item.location] THEN rest
            ELSE <<Job("lever", item.id, item.text, company, item.location,
                       item.hostedUrl, parse_any_datetime(item.createdAt), seen,
                       item.descriptionPlain)>>
                 \o rest

_relabel_company(jobs, company) ==
    [i \in 1..Len(jobs) |-> IF jobs[i].company = company THEN jobs[i]
                            ELSE [jobs[i] EXCEPT !.company = company]]

\* deduped[f"{job.source}:{job.job_id}"] = job; list(deduped.values()):
\* one posting per key, the last one given, at the position of the first
DedupeByKey(jobs) ==
    LET SameKey(a, b) == a.source = b.source /\ a.job_id = b.job_id
        firsts == SelectSeq([i \in 1..Len(jobs) |-> i],
                            LAMBDA i : \A k \in 1..(i - 1) : ~SameKey(jobs[k], jobs[i]))
        LastOf(i) == CHOOSE k \in i..Len(jobs) :
                        /\ SameKey(jobs[k], jobs[i])
                        /\ \A m \in (k + 1)..Len(jobs) : ~SameKey(jobs[m], jobs[i])
    IN [n \in 1..Len(firsts) |-> jobs[LastOf(firsts[n])]]

\* career-URL mapping of the webscrape source: company -> verified career URL
ws_mapping == [c \in {"Beta Corp"} |-> "https://jobs.lever.co/beta"]

_extract_lever_company_from_url(career_url) ==
    IF career_url = "https://jobs.lever.co/beta" THEN Some("beta") ELSE None

\* fetch_webscrape for a career URL on a known ATS: delegate, relabel, dedupe
fetch_webscrape(company, career_url, data, seen) ==
    LET lever_company == _extract_lever_company_from_url(career_url)
    IN IF lever_company /= None
       THEN DedupeByKey(_relabel_company(fetch_lever(lever_company[1], data, seen), company))
       ELSE <<>>

\* the (source, token, fetcher) tasks collect_once submits
Tasks ==
    { [source |-> "lever", token |-> "beta"],
      [source |-> "webscrape", token |-> "Beta Corp"] }

SourceNames == {t.source : t \in Tasks}

SeqsUpTo(S, n) == UNION {[1..k -> S] : k \in 0..n}

\* the upstream responses a task may receive: each lists an opening once
Responses(t) ==
    {d \in SeqsUpTo(LeverItems, MaxJobsPerTask) :
        \A i, k \in DOMAIN d : i /= k => d[i].id /= d[k].id}

Fetch(t, data, seen) ==
    IF t.source = "lever" THEN fetch_lever(t.token, data, seen)
    ELSE fetch_webscrape(t.token, ws_mapping[t.token], data, seen)

-----------------------------------------------------------------------------
(* The connectors' extraction of postings.  An upstream item is its id (or  *)
(* the digest of its URL and title, for the connectors that derive one),   *)
(* its title text and its location text.                                   *)

\* the string that has these characters
Str(cs) == CHOOSE s \in DOMAIN Chars : Chars[s] = cs

\* str.strip()
strip(s) == Str(RStrip(LStrip(Chars[s])))

\* _strip_html(raw), on text without tags or entities
_strip_html(raw) == Str(RStrip(LStrip(CollapseSpaces(Chars[raw]))))

GENERIC_LINK_TEXTS ==
    {"learn more", "read more", "details", "apply", "apply now", "view", "view details", "more"}

\* how each connector reads an item: the API connectors take the title and the location
\* as given and skip an item with no id; the JSON and feed readers strip both and skip
\* an item with no title; the anchor readers take the anchor's text for the title, skip
\* short and generic texts, and know no location
Readers ==
       "fetch_greenhouse" :> [reads |-> "api", source |-> "greenhouse"]
    @@ "fetch_lever" :> [reads |-> "api", source |-> "lever"]
    @@ "fetch_smartrecruiters" :> [reads |-> "api", source |-> "smartrecruiters"]
    @@ "fetch_ashby" :> [reads |-> "api", source |-> "ashby"]
    @@ "fetch_workday_from_career_url" :> [reads |-> "stripped", source |-> "workday"]
    @@ "_parse_jobvite_json" :> [reads |-> "stripped", source |-> "jobvite"]
    @@ "fetch_jobvite_from_career_url" :> [reads |-> "stripped", source |-> "jobvite"]
    @@ "fetch_workable_from_career_url" :> [reads |-> "stripped", source |-> "workable"]
    @@ "fetch_workable_from_career_url (fallback)" :> [reads |-> "anchor", source |-> "workable"]
    @@ "_extract_jobs_from_json_ld" :> [reads |-> "stripped", source |-> "webscrape"]
    @@ "fetch_icims_from_career_url" :> [reads |-> "anchor", source |-> "icims"]
    @@ "fetch_bamboohr_from_career_url" :> [reads |-> "anchor", source |-> "bamboohr"]
    @@ "_extract_jobs_from_links" :> [reads |-> "anchor", source |-> "webscrape"]

TitleOf(reader, item) ==
    IF reader = "api" THEN item.title
    ELSE IF reader = "stripped" THEN strip(item.title)
    ELSE _strip_html(item.title)

LocationOf(reader, item) ==
    IF reader = "api" THEN item.location
    ELSE IF reader = "stripped" THEN strip(item.location)
    ELSE ""

\* the `continue`s ahead of the filter
Skipped(reader, item) ==
    IF reader = "api" THEN item.id = ""
    ELSE IF reader = "stripped" THEN TitleOf(reader, item) = ""
    ELSE \/ Len(Chars[TitleOf(reader, item)]) < 6
         \/ normalize_text(TitleOf(reader, item)) \in {Chars[g] : g \in GENERIC_LINK_TEXTS}

\* the titles and locations the upstreams serve
ItemTitles == {"", "Senior Data Scientist", "Data Analyst Intern", "Apply now",
               "  MACHINE   Learning Engineer "}

ItemLocations == {"", "Remote", "Berlin, Germany"}

ConnItems == [id : {"", "1"}, title : ItemTitles, location : ItemLocations]

\* what a connector makes of each item, evaluated once: nothing (None) or the title and
\* the location it gives the filter and the posting
read_of ==
    [r \in {"api", "stripped", "anchor"}, item \in ConnItems |->
        IF Skipped(r, item) THEN None
        ELSE Some([title |-> TitleOf(r, item), location |-> LocationOf(r, item)])] @@ <<>>

connector_jobsUnfiltered(conn, company, items, seen) ==
    LET read(i) == read_of[Readers[conn].reads, items[i]]
        kept == SelectSeq([i \in 1..Len(items) |-> i], LAMBDA i : read(i) /= None)
    IN [n \in 1..Len(kept) |->
          Job(Readers[conn].source, items[kept[n]].id, read(kept[n])[1].title, company,
              read(kept[n])[1].location, "", None, seen, "")]

\* the loop over the items of fetch_greenhouse, fetch_lever, ..., _extract_jobs_from_links:
\* the postings appended to out
connector_jobs(conn, company, items, seen) ==
    LET read(i) == read_of[Readers[conn].reads, items[i]]
        kept == SelectSeq([i \in 1..Len(items) |-> i],
                    LAMBDA i : /\ read(i) /= None
                               /\ filter_of[read(i)[1].title, read(i)[1].location])
    IN [n \in 1..Len(kept) |->
          Job(Readers[conn].source, items[kept[n]].id, read(kept[n])[1].title, company,
              read(kept[n])[1].location, "", None, seen, "")]

ConnIdle == [conn |-> "", relabelled |-> FALSE, items |-> <<>>, jobs |-> <<>>]

InitConnector == cf = ConnIdle

\* a connector is called, by collect_once or by fetch_webscrape, which relabels and
\* deduplicates what the connector returns
ConnectorCall ==
    /\ cf.conn = ""
    /\ \E conn \in DOMAIN Readers, items \in SeqsUpTo(ConnItems, 2), relabelled \in BOOLEAN :
         LET jobs == connector_jobs(conn, "acme", items, now_local)
         IN cf' = [conn |-> conn, relabelled |-> relabelled, items |-> items,
                   jobs |-> IF relabelled THEN DedupeByKey(_relabel_company(jobs, "Acme Corp"))
                            ELSE jobs]
    /\ UNCHANGED <<collectVars, netVars, pg, validationVars, filt, feed, dfr, robots, ws, lateVars>>

\* the caller takes the postings
ConnectorReturn ==
    /\ cf.conn /= ""
    /\ cf' = ConnIdle
    /\ UNCHANGED <<collectVars, netVars, pg, validationVars, filt, feed, dfr, robots, ws, lateVars>>

NextConnector ==
    \/ ConnectorCall
    \/ ConnectorReturn

-----------------------------------------------------------------------------
(* fetch_webscrape: the robots check, the delegation to a known ATS and the *)
(* generic page scrape.  A robots.txt is the URLs of its site it disallows *)
(* for the client's user agent and the crawl-delay it declares.            *)

\* f"{parsed.scheme}://{parsed.netloc}" of the URLs the call meets; None for a URL whose
\* scheme is not http(s) or that has no netloc
BaseOf ==
       "https://careers.acme.com/jobs" :> Some("https://careers.acme.com")
    @@ "ftp://careers.acme.com/jobs" :> None
    @@ "https://boards.greenhouse.io/acme" :> Some("https://boards.greenhouse.io")
    @@ "https://boards-api.greenhouse.io/v1/boards/acme/jobs" :>
            Some("https://boards-api.greenhouse.io")
    @@ "https://apply.workable.com/acme" :> Some("https://apply.workable.com")
    @@ "https://apply.workable.com/api/v1/widget/accounts/acme?details=true" :>
            Some("https://apply.workable.com")
    @@ "https://apply.workable.com/api/v1/widget/accounts/acme" :>
            Some("https://apply.workable.com")
    @@ "https://careers-acme.icims.com/jobs" :> Some("https://careers-acme.icims.com")
    @@ "https://careers-acme.icims.com/jobs/search?ss=1" :> Some("https://careers-acme.icims.com")
    @@ "https://careers-acme.icims.com/jobs/search" :> Some("https://careers-acme.icims.com")

\* the career URLs of the webscrape mapping
CareerUrls ==
    {"https://careers.acme.com/jobs", "ftp://careers.acme.com/jobs",
     "https://boards.greenhouse.io/acme", "https://apply.workable.com/acme",
     "https://careers-acme.icims.com/jobs"}

\* _fetch_jobs_from_known_ats: the connector the career URL is delegated to, or None
KnownAts(career_url) ==
    IF career_url = "https://boards.greenhouse.io/acme" THEN Some("fetch_greenhouse")
    ELSE IF career_url = "https://careers-acme.icims.com/jobs"
         THEN Some("fetch_icims_from_career_url")
    ELSE IF career_url = "https://apply.workable.com/acme"
         THEN Some("fetch_workable_from_career_url")
    ELSE None

\* the URLs a scraping connector requests, in order; for Workable the last is the
\* fallback to the public page, read by the anchor reader
Endpoints ==
       "fetch_icims_from_career_url" :>
            <<"https://careers-acme.icims.com/jobs",
              "https://careers-acme.icims.com/jobs/search?ss=1",
              "https://careers-acme.icims.com/jobs/search">>
    @@ "fetch_workable_from_career_url" :>
            <<"https://apply.workable.com/api/v1/widget/accounts/acme?details=true",
              "https://apply.workable.com/api/v1/widget/accounts/acme",
              "https://apply.workable.com/acme">>

\* a robots.txt that was read, or the empty one that stands for one that could not be
RobotsTxt(disallowed, crawl_delay) == [disallowed |-> disallowed, crawl_delay |-> crawl_delay]

RobotsUnavailable == RobotsTxt({}, None)

\* what the site at base may serve as its robots.txt
RobotsFiles(base) ==
    {RobotsUnavailable, RobotsTxt({}, Some(1)), RobotsTxt({}, Some(MaxInterval + 1))}
    \cup {RobotsTxt({u}, Some(1)) : u \in {v \in DOMAIN BaseOf : BaseOf[v] = Some(base)}}

rp_can_fetchAllowsAll(entry, url) == TRUE

\* rp.can_fetch(self.user_agent, url)
rp_can_fetch(entry, url) == url \notin entry.disallowed

\* RobotsChecker.can_fetch(url), given the cache after the load: (allowed, crawl_delay)
can_fetch(cache, url) ==
    IF BaseOf[url] = None THEN [allowed |-> FALSE, crawl_delay |-> None]
    ELSE [allowed |-> rp_can_fetch(cache[BaseOf[url][1]], url),
          crawl_delay |-> cache[BaseOf[url][1]].crawl_delay]

\* the caches RobotsChecker may hold after can_fetch(url): the one it held, or that
\* one with what _load_robots made of the site's robots.txt
Loaded(cache, url) ==
    IF BaseOf[url] = None \/ BaseOf[url][1] \in DOMAIN cache THEN {cache}
    ELSE {[b \in DOMAIN cache \cup {BaseOf[url][1]} |->
              IF b = BaseOf[url][1] THEN f ELSE cache[b]] : f \in RobotsFiles(BaseOf[url][1])}

OrZero(x) == IF x = None THEN 0 ELSE x[1]

effective_intervalConfigured(min_request_interval_sec, crawl_delay) ==
    Max(0, min_request_interval_sec)

\* max(0.0, float(min_request_interval_sec or 0.0), float(crawl_delay or 0.0))
effective_interval(min_request_interval_sec, crawl_delay) ==
    Max(0, Max(min_request_interval_sec, OrZero(crawl_delay)))

\* deduped[job.job_id] = job; list(deduped.values())
DedupeById(jobs) ==
    LET firsts == SelectSeq([i \in 1..Len(jobs) |-> i],
                            LAMBDA i : \A k \in 1..(i - 1) : jobs[k].job_id /= jobs[i].job_id)
        LastOf(i) == CHOOSE k \in i..Len(jobs) :
                        /\ jobs[k].job_id = jobs[i].job_id
                        /\ \A m \in (k + 1)..Len(jobs) : jobs[m].job_id /= jobs[i].job_id
    IN [n \in 1..Len(firsts) |-> jobs[LastOf(firsts[n])]]

PassingItem == [id |-> "1", title |-> "Senior Data Scientist", location |-> "Remote"]

FailingItem == [id |-> "1", title |-> "Data Analyst Intern", location |-> "Remote"]

\* what an API or an endpoint answers: an error, or a list of items
ScrapeAnswers == {<<>>, <<PassingItem>>, <<FailingItem>>}

\* a career page: the JobPosting nodes of its JSON-LD blocks and its anchors
CareerPage(json_ld, anchors) == [json_ld |-> json_ld, anchors |-> anchors]

EmptyPage == CareerPage(<<>>, <<>>)

CareerPages ==
    { EmptyPage,
      CareerPage(<<>>, <<PassingItem, [PassingItem EXCEPT !.title = "  MACHINE   Learning Engineer "]>>),
      CareerPage(<<PassingItem, [PassingItem EXCEPT !.location = ""]>>, <<PassingItem>>),
      CareerPage(<<FailingItem>>, <<PassingItem>>),
      CareerPage(<<[PassingItem EXCEPT !.location = "Berlin, Germany"]>>, <<PassingItem>>),
      CareerPage(<<[PassingItem EXCEPT !.title = ""]>>, <<FailingItem>>) }

ScrapeIdle ==
    [pc |-> "idle", career_url |-> "", configured |-> 0, interval |-> 0, conn |-> None,
     ep |-> 0, out |-> <<>>, requests |-> {}, page |-> None, anchors |-> FALSE,
     result |-> <<>>, raised |-> FALSE]

InitScrape ==
    /\ robots = <<>>
    /\ ws = ScrapeIdle

\* a request of the call, as history: its URL, the interval it is paced by and who sends it
Request(url, interval, by) == [url |-> url, interval |-> interval, by |-> by]

\* fetch_webscrape(company, career_url, ...) up to the call of the connector or of the page
WebscrapeCall ==
    /\ ws.pc = "idle"
    /\ \E career_url \in CareerUrls, m \in 0..MaxInterval :
       \E cache \in Loaded(robots, career_url) :
         LET verdict == can_fetch(cache, career_url)
             started == [ScrapeIdle EXCEPT !.career_url = career_url, !.configured = m]
         IN /\ robots' = cache
            /\ ws' = IF ~verdict.allowed THEN [started EXCEPT !.pc = "done"]
                     ELSE [started EXCEPT
                             !.interval = effective_interval(m, verdict.crawl_delay),
                             !.conn = KnownAts(career_url),
                             !.ep = 1,
                             !.pc = IF KnownAts(career_url) = None THEN "page"
                                    ELSE IF KnownAts(career_url) = Some("fetch_greenhouse")
                                    THEN "api" ELSE "endpoint"]
    /\ UNCHANGED <<collectVars, netVars, pg, validationVars, filt, feed, dfr, cf, lateVars>>

\* `if ats_jobs:` and what follows it for a list that is not empty
AfterAts(w, ats_jobs) ==
    IF ats_jobs /= <<>>
    THEN [w EXCEPT !.pc = "done", !.result = DedupeByKey(ats_jobs)]
    ELSE [w EXCEPT !.pc = "page"]

\* _relabel_company(fetch_greenhouse(board, ...), company): the request of the board's
\* API, which raises or answers
DelegateApi ==
    /\ ws.pc = "api"
    /\ LET sent == [ws EXCEPT !.requests = @ \cup
                       {Request("https://boards-api.greenhouse.io/v1/boards/acme/jobs",
                                ws.interval, "fetch_greenhouse")}]
       IN \/ ws' = [sent EXCEPT !.pc = "done", !.raised = TRUE]
          \/ \E items \in ScrapeAnswers :
               ws' = AfterAts(sent,
                        _relabel_company(connector_jobs("fetch_greenhouse", "acme", items, now_local),
                                         "Acme Corp"))
    /\ UNCHANGED robots
    /\ UNCHANGED <<collectVars, netVars, pg, validationVars, filt, feed, dfr, cf, lateVars>>

\* the reader of an endpoint's answer
EndpointReader(conn, ep) ==
    IF conn = "fetch_workable_from_career_url" /\ ep = Len(Endpoints[conn])
    THEN "fetch_workable_from_career_url (fallback)"
    ELSE conn

\* one pass of the loop over the endpoints of fetch_icims_from_career_url or
\* fetch_workable_from_career_url (its fallback being the last): the robots check, the
\* request, and the postings read from the answer
DelegateEndpoint ==
    /\ ws.pc = "endpoint"
    /\ LET conn == ws.conn[1]
           url == Endpoints[conn][ws.ep]
           last == ws.ep = Len(Endpoints[conn])
           Continue(w, out) ==
               IF last \/ (conn = "fetch_workable_from_career_url" /\ out /= <<>>)
               THEN AfterAts([w EXCEPT !.out = out],
                             IF conn = "fetch_workable_from_career_url" THEN out
                             ELSE DedupeById(out))
               ELSE [w EXCEPT !.out = out, !.ep = @ + 1]
       IN \E cache \in Loaded(robots, url) :
            /\ robots' = cache
            /\ IF ~can_fetch(cache, url).allowed
               THEN ws' = Continue(ws, ws.out)
               ELSE LET sent == [ws EXCEPT !.requests = @ \cup {Request(url, ws.interval, conn)}]
                    IN \/ ws' = Continue(sent, ws.out)
                       \/ \E items \in ScrapeAnswers :
                            ws' = Continue(sent,
                                     ws.out \o connector_jobs(EndpointReader(conn, ws.ep),
                                                               "Acme Corp", items, now_local))
    /\ UNCHANGED <<collectVars, netVars, pg, validationVars, filt, feed, dfr, cf, lateVars>>

\* the generic scrape: the request of the career page, _extract_jobs_from_json_ld,
\* _extract_jobs_from_links if that found nothing, and the deduplication by job_id
ScrapePage ==
    /\ ws.pc = "page"
    /\ LET sent == [ws EXCEPT !.requests = @ \cup
                       {Request(ws.career_url, ws.interval, "fetch_webscrape")}]
       IN \/ ws' = [sent EXCEPT !.pc = "done", !.raised = TRUE]
          \/ \E page \in CareerPages :
               \E jobs \in {connector_jobs("_extract_jobs_from_json_ld", "Acme Corp",
                                           page.json_ld, now_local)},
                  links \in {connector_jobs("_extract_jobs_from_links", "Acme Corp",
                                            page.anchors, now_local)} :
                 ws' = [sent EXCEPT !.pc = "done", !.page = Some(page),
                                    !.anchors = (jobs = <<>>),
                                    !.result = DedupeById(IF jobs = <<>> THEN links ELSE jobs)]
    /\ UNCHANGED robots
    /\ UNCHANGED <<collectVars, netVars, pg, validationVars, filt, feed, dfr, cf, lateVars>>

\* the call returns or raises
WebscrapeReturn ==
    /\ ws.pc = "done"
    /\ ws' = ScrapeIdle
    /\ UNCHANGED robots
    /\ UNCHANGED <<collectVars, netVars, pg, validationVars, filt, feed, dfr, cf, lateVars>>

NextScrape ==
    \/ WebscrapeCall
    \/ DelegateApi
    \/ DelegateEndpoint
    \/ ScrapePage
    \/ WebscrapeReturn

-----------------------------------------------------------------------------
(* Safety gateway.  An address is its version and its groups: the four     *)
(* octets of an IPv4 address, the eight 16-bit groups of an IPv6 address.  *)
(* A network is an address and a prefix length.                            *)

IPv4(a, b, c, d) == [v |-> 4, g |-> <<a, b, c, d>>]

IPv6(a, b, c, d, e, f, g, h) == [v |-> 6, g |-> <<a, b, c, d, e, f, g, h>>]

Net(addr, len) == [addr |-> addr, len |-> len]

GroupBits(v) == IF v = 4 THEN 8 ELSE 16

RECURSIVE Pow2(_)
Pow2(n) == IF n = 0 THEN 1 ELSE 2 * Pow2(n - 1)

\* ip_obj in network
InNetwork(ip, net) ==
    /\ ip.v = net.addr.v
    /\ LET w == GroupBits(ip.v)
       IN \A i \in DOMAIN ip.g :
            LET before == (i - 1) * w
                k == IF net.len <= before THEN 0
                     ELSE IF net.len - before >= w THEN w ELSE net.len - before
            IN ip.g[i] \div Pow2(w - k) = net.addr.g[i] \div Pow2(w - k)

BLOCKED_NETWORKS ==
    { Net(IPv4(0, 0, 0, 0), 8), Net(IPv4(10, 0, 0, 0), 8), Net(IPv4(100, 64, 0, 0), 10),
      Net(IPv4(127, 0, 0, 0), 8), Net(IPv4(169, 254, 0, 0), 16), Net(IPv4(172, 16, 0, 0), 12),
      Net(IPv4(192, 168, 0, 0), 16), Net(IPv4(224, 0, 0, 0), 4), Net(IPv4(240, 0, 0, 0), 4),
      Net(IPv6(0, 0, 0, 0, 0, 0, 0, 1), 128), Net(IPv6(64512, 0, 0, 0, 0, 0, 0, 0), 7),
      Net(IPv6(65152, 0, 0, 0, 0, 0, 0, 0), 10), Net(IPv6(65280, 0, 0, 0, 0, 0, 0, 0), 8) }

\* the properties of the standard library's address objects that _ip_is_blocked reads
is_loopback(ip) ==
    \/ InNetwork(ip, Net(IPv4(127, 0, 0, 0), 8))
    \/ ip = IPv6(0, 0, 0, 0, 0, 0, 0, 1)

is_link_local(ip) ==
    \/ InNetwork(ip, Net(IPv4(169, 254, 0, 0), 16))
    \/ InNetwork(ip, Net(IPv6(65152, 0, 0, 0, 0, 0, 0, 0), 10))

is_multicast(ip) ==
    \/ InNetwork(ip, Net(IPv4(224, 0, 0, 0), 4))
    \/ InNetwork(ip, Net(IPv6(65280, 0, 0, 0, 0, 0, 0, 0), 8))

is_unspecified(ip) == ip = IPv4(0, 0, 0, 0) \/ ip = IPv6(0, 0, 0, 0, 0, 0, 0, 0)

is_reserved(ip) ==
    \/ InNetwork(ip, Net(IPv4(240, 0, 0, 0), 4))
    \/ InNetwork(ip, Net(IPv6(0, 0, 0, 0, 0, 0, 0, 0), 8))

is_private(ip) ==
    \E n \in { Net(IPv4(0, 0, 0, 0), 8), Net(IPv4(10, 0, 0, 0), 8), Net(IPv4(127, 0, 0, 0), 8),
               Net(IPv4(169, 254, 0, 0), 16), Net(IPv4(172, 16, 0, 0), 12),
               Net(IPv4(192, 0, 2, 0), 24), Net(IPv4(192, 168, 0, 0), 16),
               Net(IPv4(198, 18, 0, 0), 15), Net(IPv4(198, 51, 100, 0), 24),
               Net(IPv4(203, 0, 113, 0), 24), Net(IPv4(240, 0, 0, 0), 4),
               Net(IPv6(0, 0, 0, 0, 0, 0, 0, 1), 128), Net(IPv6(0, 0, 0, 0, 0, 0, 0, 0), 128),
               Net(IPv6(0, 0, 0, 0, 0, 65535, 0, 0), 96), Net(IPv6(8193, 3512, 0, 0, 0, 0, 0, 0), 32),
               Net(IPv6(64512, 0, 0, 0, 0, 0, 0, 0), 7), Net(IPv6(65152, 0, 0, 0, 0, 0, 0, 0), 10) } :
        InNetwork(ip, n)

\* the text of a sockaddr that ipaddress.ip_address does not parse
NotAnAddress == [v |-> 0, g |-> <<>>]

_ip_is_blocked(ip) ==
    IF ip = NotAnAddress THEN TRUE
    ELSE IF is_private(ip) \/ is_loopback(ip) \/ is_link_local(ip) \/ is_multicast(ip) THEN TRUE
    ELSE IF is_reserved(ip) \/ is_unspecified(ip) THEN TRUE
    ELSE \E network \in BLOCKED_NETWORKS : InNetwork(ip, network)

Public4 == IPv4(93, 184, 216, 34)

Public6 == IPv6(9734, 18176, 0, 0, 0, 0, 0, 4369)

\* what socket.getaddrinfo may answer for the hostname: it raises, or returns
\* infos with these addresses
DnsError == [ok |-> FALSE, addrs |-> {}]

Answer(addrs) == [ok |-> TRUE, addrs |-> addrs]

SafeAnswer == Answer({Public4, Public6})

DnsAnswers ==
    { DnsError,
      Answer({}),
      SafeAnswer,
      Answer({Public4, IPv4(10, 0, 0, 5)}),
      Answer({IPv4(127, 0, 0, 1), IPv6(0, 0, 0, 0, 0, 0, 0, 1)}),
      Answer({IPv4(100, 64, 0, 1)}),
      Answer({Public6, IPv6(65152, 0, 0, 0, 0, 0, 0, 1)}),
      Answer({IPv4(169, 254, 169, 254), NotAnAddress}) }

\* whether an answer carries a blocked address, evaluated once per answer
HasBlocked == [a \in DnsAnswers |-> \E ip \in a.addrs : _ip_is_blocked(ip)]

\* urlparse(url): scheme, hostname and netloc of the URLs the callers pass
urlparse ==
       "https://api.lever.co/v0/postings/beta" :>
            [scheme |-> "https", hostname |-> Some("api.lever.co"), netloc |-> "api.lever.co"]
    @@ "ftp://api.lever.co/v0/postings/beta" :>
            [scheme |-> "ftp", hostname |-> Some("api.lever.co"), netloc |-> "api.lever.co"]
    @@ "https:///v0/postings/beta" :>
            [scheme |-> "https", hostname |-> None, netloc |-> ""]
    @@ "api.lever.co/v0/postings/beta" :>
            [scheme |-> "", hostname |-> None, netloc |-> ""]

Urls == DOMAIN urlparse

\* dict.get(key, default)
Get(d, key, default) == IF key \in DOMAIN d THEN d[key] ELSE default

\* _hostname_is_safe(hostname) when the cache has no verdict: the verdict, and
\* whether it is written to _HOST_SAFETY_CACHE
ResolveVerdictAllBlocked(answer) ==
    IF ~answer.ok THEN [safe |-> FALSE, cached |-> FALSE]
    ELSE IF answer.addrs = {} THEN [safe |-> FALSE, cached |-> FALSE]
    ELSE [safe |-> ~(\A ip \in answer.addrs : _ip_is_blocked(ip)), cached |-> TRUE]

ResolveVerdictCachesFailure(answer) ==
    IF ~answer.ok THEN [safe |-> FALSE, cached |-> TRUE]
    ELSE IF answer.addrs = {} THEN [safe |-> FALSE, cached |-> FALSE]
    ELSE [safe |-> ~HasBlocked[answer], cached |-> TRUE]

ResolveVerdict(answer) ==
    IF ~answer.ok THEN [safe |-> FALSE, cached |-> FALSE]
    ELSE IF answer.addrs = {} THEN [safe |-> FALSE, cached |-> FALSE]
    ELSE [safe |-> ~HasBlocked[answer], cached |-> TRUE]

\* _validate_request_url up to the cache lookup of _hostname_is_safe:
\* "rejected" (ValueError), "allowed" (cached safe) or "resolve" (no verdict cached)
ValidateLookup(url, cache) ==
    LET parsed == urlparse[url]
    IN IF parsed.scheme \notin {"http", "https"} THEN "rejected"
       ELSE IF parsed.hostname = None \/ parsed.hostname = Some("") THEN "rejected"
       ELSE IF parsed.hostname[1] \in DOMAIN cache
            THEN (IF cache[parsed.hostname[1]] THEN "allowed" ELSE "rejected")
            ELSE "resolve"

GoodUrl == "https://api.lever.co/v0/postings/beta"

HostKey(url) == IF urlparse[url].netloc /= "" THEN urlparse[url].netloc ELSE "unknown-host"

-----------------------------------------------------------------------------
(* Retry delays *)

RetryAfterCap == 60

BackoffCap == 30

DigitValue ==
    "0" :> 0 @@ "1" :> 1 @@ "2" :> 2 @@ "3" :> 3 @@ "4" :> 4 @@ "5" :> 5 @@ "6" :> 6 @@ "7" :> 7
    @@ "8" :> 8 @@ "9" :> 9

RECURSIVE ParseDigits(_, _)
ParseDigits(cs, acc) ==
    IF cs = <<>> THEN acc ELSE ParseDigits(Tail(cs), 10 * acc + DigitValue[Head(cs)])

\* the Retry-After header values the upstream sends, as characters
HeaderChars ==
       " 3 " :> <<" ", "3", " ">>
    @@ "75" :> <<"7", "5">>
    @@ "soon" :> <<"s", "o", "o", "n">>

Min(a, b) == IF a <= b THEN a ELSE b

\* _parse_retry_after_seconds(retry_after): seconds, or None
_parse_retry_after_seconds(retry_after) ==
    IF retry_after = None \/ retry_after = Some("") THEN None
    ELSE LET raw == RStrip(LStrip(HeaderChars[retry_after[1]]))
         IN IF raw /= <<>> /\ \A i \in DOMAIN raw : raw[i] \in DOMAIN DigitValue
            THEN Some(Max(0, ParseDigits(raw, 0)))
            ELSE None

\* _retry_sleep_seconds(attempt, retry_after)
_retry_sleep_seconds(attempt, retry_after) ==
    LET parsed == _parse_retry_after_seconds(retry_after)
    IN IF parsed /= None THEN Min(parsed[1], RetryAfterCap)
       ELSE Min(2 * (attempt + 1), BackoffCap)

-----------------------------------------------------------------------------
(* RequestThrottler.  Instants of time.monotonic() are whole seconds.      *)

\* the critical section of RequestThrottler.wait, for a positive interval:
\* the slot is granted, or the caller is to sleep
Granted(now, allowed, key) == now >= Get(allowed, key, 0)

ReserveNone(allowed, key, now, interval) == allowed

\* self._next_allowed[key] = now + interval
Reserve(allowed, key, now, interval) ==
    [k \in DOMAIN allowed \cup {key} |-> IF k = key THEN now + interval ELSE allowed[k]]

\* time.sleep(min(max(sleep_for, 0.001), 1.0)), sleep_for a whole number of seconds >= 1
WaitSleep(now, allowed, key) == Min(Max(Get(allowed, key, 0) - now, 1), 1)

deferOverwrites(allowed, key, now, delay_sec) ==
    LET delay == Max(0, delay_sec)
    IN IF delay <= 0 THEN allowed
       ELSE [k \in DOMAIN allowed \cup {key} |-> IF k = key THEN now + delay ELSE allowed[k]]

\* RequestThrottler.defer(key, delay_sec)
defer(allowed, key, now, delay_sec) ==
    LET delay == Max(0, delay_sec)
    IN IF delay <= 0 THEN allowed
       ELSE IF now + delay > Get(allowed, key, 0)
            THEN [k \in DOMAIN allowed \cup {key} |-> IF k = key THEN now + delay ELSE allowed[k]]
            ELSE allowed

-----------------------------------------------------------------------------
(* The HTTP client: http_get_json_with_retry, http_get_text_with_retry and *)
(* http_post_json_with_retry, called by the worker threads.                *)

Callers == {"w1", "w2"}

HttpFunctions == {"http_get_json_with_retry", "http_get_text_with_retry", "http_post_json_with_retry"}

Resp(kind, retry_after, json) == [kind |-> kind, retry_after |-> retry_after, json |-> json]

NoResp == Resp("none", None, FALSE)

\* what the upstream, or the network, answers to a request
HttpResponses ==
    {Resp("200", None, TRUE), Resp("200", None, FALSE), Resp("404", None, FALSE),
     Resp("503", None, FALSE), Resp("Timeout", None, FALSE), Resp("ConnectionError", None, FALSE)}
    \cup {Resp("429", ra, FALSE) : ra \in {None} \cup {Some(h) : h \in DOMAIN HeaderChars}}

\* a retry policy that also retries a 404
IsTransientAnyFailure(resp) == resp.kind \in {"Timeout", "ConnectionError", "429", "503", "404"}

IsTransient(resp) == resp.kind \in {"Timeout", "ConnectionError", "429", "503"}

NoResult == [kind |-> "none", err |-> ""]

Raised(err) == [kind |-> "error", err |-> err]

Rejected == [kind |-> "rejected", err |-> "ValueError"]

OutcomeSwallowed(fn, resp) == [kind |-> "value", err |-> ""]

\* resp.raise_for_status(); return resp.json() / resp.text: what the call ends with
Outcome(fn, resp) ==
    IF resp.kind \in {"Timeout", "ConnectionError"} THEN Raised(resp.kind)
    ELSE IF resp.kind /= "200" THEN Raised("HTTPError")
    ELSE IF fn /= "http_get_text_with_retry" /\ ~resp.json THEN Raised("ValueError")
    ELSE [kind |-> "value", err |-> ""]

CallIdle ==
    [pc |-> "idle", fn |-> "", url |-> "", max_retries |-> 0, throttler |-> FALSE, attempt |-> 0,
     resp |-> NoResp, wake |-> 0, sent |-> 0, result |-> NoResult,
     resolved |-> None, transient |-> TRUE]

NoRequest == [by |-> "", at |-> 0, blocked |-> FALSE, due |-> 0]

InitNet ==
    /\ mono = 0
    /\ delays = 0
    /\ dns = SafeAnswer
    /\ host_cache = <<>>
    /\ thr_default = None
    /\ next_allowed = <<>>
    /\ call = [c \in Callers |-> CallIdle]
    /\ hold = 0
    /\ last_req = NoRequest
    /\ grants = <<>>

\* the hostname's DNS records change
Rebind ==
    /\ \E a \in DnsAnswers : a /= dns /\ dns' = a
    /\ UNCHANGED <<mono, delays, host_cache, thr_default, next_allowed, call, hold, last_req, grants>>
    /\ UNCHANGED <<collectVars, pg, validationVars, connVars, lateVars>>

\* throttler = RequestThrottler(default_min_interval_sec=min_request_interval_sec)
NewThrottler ==
    /\ thr_default = None
    /\ \E i \in 0..MaxInterval : thr_default' = Some(Max(0, i))
    /\ UNCHANGED <<mono, delays, dns, host_cache, next_allowed, call, hold, last_req, grants>>
    /\ UNCHANGED <<collectVars, pg, validationVars, connVars, lateVars>>

\* a worker enters http_*_with_retry: _validate_request_url up to the cache lookup
HttpCall(c, urls, throttled) ==
    /\ call[c].pc = "idle"
    /\ call[c].sent = 0
    /\ \E fn \in HttpFunctions, url \in urls, n \in 0..MaxRetries, t \in throttled :
         /\ t => thr_default /= None
         /\ LET v == ValidateLookup(url, host_cache)
                base == [CallIdle EXCEPT !.fn = fn, !.url = url, !.max_retries = n, !.throttler = t]
            IN call' = [call EXCEPT ![c] =
                 IF v = "rejected" THEN [base EXCEPT !.pc = "done", !.result = Rejected, !.fn = ""]
                 ELSE IF v = "allowed" THEN [base EXCEPT !.pc = "attempt"]
                 ELSE [base EXCEPT !.pc = "resolve"]]
    /\ UNCHANGED <<mono, delays, dns, host_cache, thr_default, next_allowed, hold, last_req, grants>>
    /\ UNCHANGED <<collectVars, pg, validationVars, connVars, lateVars>>

\* _hostname_is_safe: socket.getaddrinfo, the verdict and its entry in the cache
HttpResolve(c) ==
    /\ call[c].pc = "resolve"
    /\ LET host == urlparse[call[c].url].hostname[1]
           v == ResolveVerdict(dns)
       IN /\ host_cache' =
                IF v.cached
                THEN [h \in DOMAIN host_cache \cup {host} |-> IF h = host THEN v.safe ELSE host_cache[h]]
                ELSE host_cache
          /\ call' = [call EXCEPT ![c] =
                IF v.safe THEN [@ EXCEPT !.pc = "attempt", !.resolved = Some(dns)]
                ELSE [@ EXCEPT !.pc = "done", !.result = Rejected, !.resolved = Some(dns),
                               !.fn = ""]]
    /\ UNCHANGED <<mono, delays, dns, thr_default, next_allowed, hold, last_req, grants>>
    /\ UNCHANGED <<collectVars, pg, validationVars, connVars, lateVars>>

\* throttler.wait(host_key, min_request_interval_sec): one pass of its loop
HttpWait(c) ==
    /\ call[c].pc = "attempt"
    /\ call[c].throttler
    /\ LET key == HostKey(call[c].url)
           interval == Max(0, thr_default[1])
       IN IF interval <= 0
          THEN /\ call' = [call EXCEPT ![c].pc = "send"]
               /\ UNCHANGED <<next_allowed, grants>>
          ELSE IF Granted(mono, next_allowed, key)
          THEN /\ next_allowed' = Reserve(next_allowed, key, mono, interval)
               /\ grants' = IF grants = <<>> THEN <<[by |-> c, at |-> mono]>>
                             ELSE <<grants[Len(grants)], [by |-> c, at |-> mono]>>
               /\ call' = [call EXCEPT ![c].pc = "send"]
          ELSE /\ call' = [call EXCEPT ![c].pc = "sleep",
                                       ![c].wake = mono + WaitSleep(mono, next_allowed, key)]
               /\ UNCHANGED <<next_allowed, grants>>
    /\ UNCHANGED <<mono, delays, dns, host_cache, thr_default, hold, last_req>>
    /\ UNCHANGED <<collectVars, pg, validationVars, connVars, lateVars>>

\* time.sleep returns
HttpWake(c) ==
    /\ call[c].pc = "sleep"
    /\ mono >= call[c].wake
    /\ call' = [call EXCEPT ![c].pc = "attempt", ![c].wake = 0]
    /\ UNCHANGED <<mono, delays, dns, host_cache, thr_default, next_allowed, hold, last_req, grants>>
    /\ UNCHANGED <<collectVars, pg, validationVars, connVars, lateVars>>

\* _get_http_session().get / .post: the request is sent and answered
HttpSend(c, responses) ==
    /\ \/ call[c].pc = "send"
       \/ call[c].pc = "attempt" /\ ~call[c].throttler
    /\ \E resp \in responses :
         /\ call' = [call EXCEPT ![c].pc = "handle", ![c].resp = resp, ![c].sent = @ + 1,
                                 ![c].transient = @ /\ IsTransient(resp)]
         /\ hold' =
              IF resp.kind = "429" /\ _parse_retry_after_seconds(resp.retry_after) /= None
              THEN Max(hold, mono + Min(_parse_retry_after_seconds(resp.retry_after)[1], RetryAfterCap))
              ELSE hold
    /\ last_req' = [by |-> c, at |-> mono, due |-> hold,
                    blocked |-> dns.ok /\ HasBlocked[dns]]
    /\ UNCHANGED <<mono, delays, dns, host_cache, thr_default, next_allowed, grants>>
    /\ UNCHANGED <<collectVars, pg, validationVars, connVars, lateVars>>

\* the rest of the loop body, or of the last attempt
HttpHandle(c) ==
    /\ call[c].pc = "handle"
    /\ LET cur == call[c]
           key == HostKey(cur.url)
           sleep_s == _retry_sleep_seconds(cur.attempt,
                          IF cur.resp.kind = "429" THEN cur.resp.retry_after ELSE None)
       IN IF cur.attempt < cur.max_retries /\ IsTransient(cur.resp)
          THEN IF cur.throttler
               THEN /\ next_allowed' = defer(next_allowed, key, mono, sleep_s)
                    /\ call' = [call EXCEPT ![c].pc = "attempt", ![c].attempt = @ + 1,
                                            ![c].resp = NoResp]
               ELSE /\ call' = [call EXCEPT ![c].pc = "sleep", ![c].wake = mono + sleep_s,
                                            ![c].attempt = @ + 1, ![c].resp = NoResp]
                    /\ UNCHANGED next_allowed
          ELSE /\ call' = [call EXCEPT ![c].pc = "done", ![c].result = Outcome(cur.fn, cur.resp),
                                       ![c].fn = "", ![c].wake = 0]
               /\ UNCHANGED next_allowed
    /\ UNCHANGED <<mono, delays, dns, host_cache, thr_default, hold, last_req, grants>>
    /\ UNCHANGED <<collectVars, pg, validationVars, connVars, lateVars>>

Sleepers == {c \in Callers : call[c].pc = "sleep" /\ call[c].wake > mono}

\* time passes until the next sleeping worker is due
Elapse ==
    /\ Sleepers /= {}
    /\ mono' = CHOOSE t \in {call[c].wake : c \in Sleepers} :
                  \A c \in Sleepers : t <= call[c].wake
    /\ UNCHANGED <<delays, dns, host_cache, thr_default, next_allowed, call, hold, last_req, grants>>
    /\ UNCHANGED <<collectVars, pg, validationVars, connVars, lateVars>>

\* a second passes
Delay ==
    /\ delays < MaxDelays
    /\ delays' = delays + 1
    /\ mono' = mono + 1
    /\ UNCHANGED <<dns, host_cache, thr_default, next_allowed, call, hold, last_req, grants>>
    /\ UNCHANGED <<collectVars, pg, validationVars, connVars, lateVars>>

\* a worker calls throttler.wait(key) of its own
WaitCall(c) ==
    /\ call[c].pc = "idle"
    /\ call[c].sent < MaxWaits
    /\ thr_default /= None
    /\ call' = [call EXCEPT ![c].pc = "attempt", ![c].url = GoodUrl, ![c].throttler = TRUE]
    /\ UNCHANGED <<mono, delays, dns, host_cache, thr_default, next_allowed, hold, last_req, grants>>
    /\ UNCHANGED <<collectVars, pg, validationVars, connVars, lateVars>>

\* that call returns
WaitReturn(c) ==
    /\ call[c].pc = "send"
    /\ call' = [call EXCEPT ![c].pc = "idle", ![c].sent = @ + 1]
    /\ UNCHANGED <<mono, delays, dns, host_cache, thr_default, next_allowed, hold, last_req, grants>>
    /\ UNCHANGED <<collectVars, pg, validationVars, connVars, lateVars>>

\* a worker calls throttler.defer(key, delay_sec)
DeferCall(c) ==
    /\ call[c].pc = "idle"
    /\ call[c].sent < MaxWaits
    /\ thr_default /= None
    /\ \E d \in {-1, 0, MaxInterval + 1} :
         next_allowed' = defer(next_allowed, HostKey(GoodUrl), mono, d)
    /\ call' = [call EXCEPT ![c].sent = @ + 1]
    /\ UNCHANGED <<mono, delays, dns, host_cache, thr_default, hold, last_req, grants>>
    /\ UNCHANGED <<collectVars, pg, validationVars, connVars, lateVars>>

\* the workers' calls of RequestThrottler.wait and RequestThrottler.defer
NextThrottle ==
    \/ NewThrottler
    \/ \E c \in Callers : WaitCall(c)
    \/ \E c \in Callers : HttpWait(c)
    \/ \E c \in Callers : HttpWake(c)
    \/ \E c \in Callers : WaitReturn(c)
    \/ \E c \in Callers : DeferCall(c)
    \/ Elapse
    \/ Delay

\* the host keys the workers defer
DeferKeys == {HostKey(GoodUrl), "jobs.lever.co"}

\* the delays they ask for
DeferDelays == {-1, 0, 1, 2}

DeferIdle == [n |-> 0, key |-> "", delay_sec |-> 0, kept |-> FALSE]

InitDefer == dfr = DeferIdle

\* a worker calls throttler.defer(key, delay_sec) for any of the hosts
ThrottlerDefer(c) ==
    /\ call[c].pc = "idle"
    /\ call[c].sent < MaxWaits
    /\ thr_default /= None
    /\ \E key \in DeferKeys, d \in DeferDelays :
         /\ next_allowed' = defer(next_allowed, key, mono, d)
         /\ dfr' = [n |-> (dfr.n % 2) + 1, key |-> key, delay_sec |-> d,
                     kept |-> d > 0 /\ Get(next_allowed, key, 0) > mono + d]
    /\ call' = [call EXCEPT ![c].sent = @ + 1]
    /\ UNCHANGED <<mono, delays, dns, host_cache, thr_default, hold, last_req, grants>>
    /\ UNCHANGED <<collectVars, pg, validationVars, filt, feed, cf, robots, ws, lateVars>>

\* one worker calls RequestThrottler.wait for one host while another calls
\* RequestThrottler.defer for any host
NextDefer ==
    \/ NewThrottler
    \/ WaitCall("w1")
    \/ \E c \in Callers : HttpWait(c)
    \/ \E c \in Callers : HttpWake(c)
    \/ \E c \in Callers : WaitReturn(c)
    \/ ThrottlerDefer("w2")
    \/ Elapse
    \/ Delay

-----------------------------------------------------------------------------
(* RequestThrottler with its lock.  A thread in wait or defer acquires     *)
(* self._lock, runs the body of the with block, and leaves it; wait sleeps *)
(* and loops when the window of its key is closed.                         *)

Threads == {"t1", "t2"}

Free == ""

ThreadIdle == [pc |-> "idle", op |-> "", key |-> "", arg |-> 0, wake |-> 0]

InitLock ==
    tl = [lock |-> Free, next_allowed |-> <<>>, now |-> 0, calls |-> 0,
          th |-> [t \in Threads |-> ThreadIdle]]

\* the holder of self._lock while a thread of wait is in time.sleep, had the sleep been
\* inside the with block
LockWhileSleepingHeld(t) == t

\* the holder of self._lock while a thread of wait is in time.sleep: the with block has
\* been left
LockWhileSleeping(t) == Free

\* wait(key, min_interval_sec) is called: it returns at once for an interval <= 0
LockWaitCall(t) ==
    /\ tl.th[t].pc = "idle"
    /\ tl.calls < MaxLockCalls
    /\ \E key \in DeferKeys, interval \in 0..MaxInterval :
         tl' = [tl EXCEPT !.calls = @ + 1,
                          !.th[t] = IF interval <= 0 THEN ThreadIdle
                                    ELSE [ThreadIdle EXCEPT !.pc = "acquire", !.op = "wait",
                                                            !.key = key, !.arg = interval]]
    /\ UNCHANGED <<collectVars, netVars, pg, validationVars, connVars, kl, pl, vp, cm, sg>>

\* defer(key, delay_sec) is called: it returns at once for a delay <= 0
LockDeferCall(t) ==
    /\ tl.th[t].pc = "idle"
    /\ tl.calls < MaxLockCalls
    /\ \E key \in DeferKeys, delay_sec \in DeferDelays :
         tl' = [tl EXCEPT !.calls = @ + 1,
                          !.th[t] = IF Max(0, delay_sec) <= 0 THEN ThreadIdle
                                    ELSE [ThreadIdle EXCEPT !.pc = "acquire", !.op = "defer",
                                                            !.key = key, !.arg = delay_sec]]
    /\ UNCHANGED <<collectVars, netVars, pg, validationVars, connVars, kl, pl, vp, cm, sg>>

\* with self._lock: the thread gets the lock when no thread holds it
LockAcquire(t) ==
    /\ tl.th[t].pc = "acquire"
    /\ tl.lock = Free
    /\ tl' = [tl EXCEPT !.lock = t, !.th[t].pc = "locked"]
    /\ UNCHANGED <<collectVars, netVars, pg, validationVars, connVars, kl, pl, vp, cm, sg>>

\* the body of the with block and its end: wait reserves the window and returns, or goes
\* to sleep; defer moves the window and returns
LockBody(t) ==
    /\ tl.th[t].pc = "locked"
    /\ LET cur == tl.th[t]
       IN IF cur.op = "defer"
          THEN tl' = [tl EXCEPT !.next_allowed = defer(tl.next_allowed, cur.key, tl.now, cur.arg),
                                !.lock = Free, !.th[t] = ThreadIdle]
          ELSE IF Granted(tl.now, tl.next_allowed, cur.key)
          THEN tl' = [tl EXCEPT !.next_allowed = Reserve(tl.next_allowed, cur.key, tl.now, cur.arg),
                                !.lock = Free, !.th[t] = ThreadIdle]
          ELSE tl' = [tl EXCEPT !.lock = LockWhileSleeping(t),
                                !.th[t].pc = "sleeping",
                                !.th[t].wake = tl.now + WaitSleep(tl.now, tl.next_allowed, cur.key)]
    /\ UNCHANGED <<collectVars, netVars, pg, validationVars, connVars, kl, pl, vp, cm, sg>>

\* time.sleep returns and the while loop goes round
LockWake(t) ==
    /\ tl.th[t].pc = "sleeping"
    /\ tl.now >= tl.th[t].wake
    /\ tl' = [tl EXCEPT !.th[t].pc = "acquire", !.th[t].wake = 0]
    /\ UNCHANGED <<collectVars, netVars, pg, validationVars, connVars, kl, pl, vp, cm, sg>>

\* a second passes while a thread sleeps
LockElapse ==
    /\ \E t \in Threads : tl.th[t].pc = "sleeping" /\ tl.th[t].wake > tl.now
    /\ tl' = [tl EXCEPT !.now = @ + 1]
    /\ UNCHANGED <<collectVars, netVars, pg, validationVars, connVars, kl, pl, vp, cm, sg>>

NextLock ==
    \/ \E t \in Threads : LockWaitCall(t)
    \/ \E t \in Threads : LockDeferCall(t)
    \/ \E t \in Threads : LockAcquire(t)
    \/ \E t \in Threads : LockBody(t)
    \/ \E t \in Threads : LockWake(t)
    \/ LockElapse

\* calls of any URL, answered with success or a server error, while the hostname's
\* DNS records change
NextGate ==
    \/ Rebind
    \/ \E c \in Callers : HttpCall(c, Urls, {FALSE})
    \/ \E c \in Callers : HttpResolve(c)
    \/ \E c \in Callers : HttpWake(c)
    \/ \E c \in Callers : HttpSend(c, {Resp("200", None, TRUE), Resp("503", None, FALSE)})
    \/ \E c \in Callers : HttpHandle(c)
    \/ Elapse

\* the workers' validations of any URL while the hostname's DNS records change
NextResolve ==
    \/ Rebind
    \/ \E c \in Callers : HttpCall(c, Urls, {FALSE})
    \/ \E c \in Callers : HttpResolve(c)

\* one worker's calls of a public URL, past a throttler or not, answered in every way
NextHttp ==
    \/ NewThrottler
    \/ HttpCall("w1", {GoodUrl}, BOOLEAN)
    \/ HttpResolve("w1")
    \/ HttpWait("w1")
    \/ HttpWake("w1")
    \/ HttpSend("w1", HttpResponses)
    \/ HttpHandle("w1")
    \/ Elapse
    \/ Delay

-----------------------------------------------------------------------------
(* Paginated connectors: fetch_smartrecruiters and the search loop of      *)
(* fetch_workday_from_career_url.  A page is the number of its postings,   *)
(* the number of those that pass job_passes_filters, and its total count.  *)

SmartRecruitersLimit == 100

SmartRecruitersMaxPages == 50

WorkdayLimit == 20

WorkdayMaxPages == 50

PageLimit(conn) == IF conn = "smartrecruiters" THEN SmartRecruitersLimit ELSE WorkdayLimit

MaxPagesOneMore(conn) ==
    IF conn = "smartrecruiters" THEN SmartRecruitersMaxPages + 1 ELSE WorkdayMaxPages + 1

MaxPages(conn) == IF conn = "smartrecruiters" THEN SmartRecruitersMaxPages ELSE WorkdayMaxPages

\* _workday_candidate_endpoints("https://acme.wd5.myworkdayjobs.com/en-US/External")
WorkdayEndpoints ==
    << "https://acme.wd5.myworkdayjobs.com/wday/cxs/acme/External/jobs",
       "https://acme.wd5.myworkdayjobs.com/wday/cxs/acme/en-US/jobs",
       "https://acme.wd5.myworkdayjobs.com/wday/cxs/acme/careers/jobs",
       "https://acme.wd5.myworkdayjobs.com/wday/cxs/acme/external/jobs",
       "https://acme.wd5.myworkdayjobs.com/wday/cxs/acme/externalsite/jobs",
       "https://acme.wd5.myworkdayjobs.com/wday/cxs/acme/jobsearch/jobs" >>

Page(kind, n, passing, total) == [kind |-> kind, n |-> n, passing |-> passing, total |-> total]

NoPage == Page("none", 0, 0, None)

\* what the upstream answers to a page request: the HTTP call raises, the body is
\* not a JSON object, or it is one, with an empty, a short or a full page of which
\* all the postings or none pass the filters; total is an integer or it is not
PageResponses(conn) ==
    {Page("raise", 0, 0, None), Page("notdict", 0, 0, None)}
    \cup {Page("dict", n, p, t) :
            n \in {0, 1, PageLimit(conn)}, p \in {0, PageLimit(conn)},
            t \in {None, Some(PageLimit(conn) + 1), Some(MaxPages(conn) * PageLimit(conn) + 1)}}

\* whether the loop body ends the loop of the connector after this page
EndsLoopNever(conn, offset, r) == FALSE

EndsLoop(conn, offset, r) ==
    IF conn = "smartrecruiters"
    THEN \/ r.kind /= "dict"
         \/ r.n = 0
         \/ r.total /= None /\ offset + SmartRecruitersLimit >= r.total[1]
    ELSE \/ r.kind /= "dict"
         \/ r.n = 0
         \/ r.total /= None /\ offset + WorkdayLimit >= r.total[1]
         \/ r.n < WorkdayLimit

PgIdle ==
    [pc |-> "idle", conn |-> "", ep |-> 0, offset |-> 0, page |-> 0, out |-> 0,
     matched |-> FALSE, offsets |-> <<>>, last |-> NoPage]

InitPages == pg = PgIdle

\* fetch_smartrecruiters(company) is called
SmartRecruitersStart ==
    /\ pg.pc = "idle"
    /\ pg' = [PgIdle EXCEPT !.pc = "loop", !.conn = "smartrecruiters"]
    /\ UNCHANGED <<collectVars, netVars, validationVars, connVars, lateVars>>

\* fetch_workday_from_career_url(company, career_url) is called
WorkdayStart ==
    /\ pg.pc = "idle"
    /\ pg' = [PgIdle EXCEPT !.pc = "endpoint", !.conn = "workday", !.ep = 1]
    /\ UNCHANGED <<collectVars, netVars, validationVars, connVars, lateVars>>

\* for endpoint in endpoints: the robots check and the set-up of the search loop
WorkdayEndpoint ==
    /\ pg.pc = "endpoint"
    /\ IF pg.ep > Len(WorkdayEndpoints)
       THEN pg' = [pg EXCEPT !.pc = "done", !.out = 0]
       ELSE \E allowed \in BOOLEAN :
              pg' = IF allowed
                    THEN [pg EXCEPT !.pc = "loop", !.offset = 0, !.page = 0, !.out = 0,
                                    !.matched = FALSE, !.offsets = <<>>, !.last = NoPage]
                    ELSE [pg EXCEPT !.ep = @ + 1]
    /\ UNCHANGED <<collectVars, netVars, validationVars, connVars, lateVars>>

\* one iteration of `for _ in range(max_pages)`, and what follows the loop when it ends
PageRequest ==
    /\ pg.pc = "loop"
    /\ \E r \in PageResponses(pg.conn) :
         /\ r.passing <= r.n
         /\ LET kept == IF r.kind = "dict" THEN pg.out + r.passing ELSE pg.out
                hit == pg.matched \/ (r.kind = "dict" /\ r.n > 0)
                ends == EndsLoop(pg.conn, pg.offset, r) \/ pg.page + 1 >= MaxPages(pg.conn)
                seen == [pg EXCEPT !.page = @ + 1, !.offsets = Append(@, pg.offset), !.last = r,
                                   !.out = kept, !.matched = hit]
            IN pg' =
                 IF pg.conn = "smartrecruiters" /\ r.kind = "raise"
                 THEN [seen EXCEPT !.pc = "raised"]
                 ELSE IF ~ends
                 THEN [seen EXCEPT !.offset = @ + PageLimit(pg.conn)]
                 ELSE IF pg.conn = "smartrecruiters" \/ hit \/ kept > 0
                 THEN [seen EXCEPT !.pc = "done"]
                 ELSE [seen EXCEPT !.pc = "endpoint", !.ep = @ + 1]
    /\ UNCHANGED <<collectVars, netVars, validationVars, connVars, lateVars>>

NextPages ==
    \/ SmartRecruitersStart
    \/ WorkdayStart
    \/ WorkdayEndpoint
    \/ PageRequest

-----------------------------------------------------------------------------
(* Token validators: validate_greenhouse_token, validate_lever_token,      *)
(* validate_smartrecruiters_token and validate_ashby_token.  A posting of  *)
(* a board is the title and the location the validator reads from it.  A   *)
(* JSON value is absent (the key is missing), a scalar, an integer or a    *)
(* list of postings; a list is its length, the posting at its last         *)
(* position and the posting at every other position.                       *)

\* the postings the boards of the model are made of
BoardPostings ==
    { [title |-> "Data Scientist", location |-> "Austin, TX"],
      [title |-> "Data Engineer II", location |-> ""],
      [title |-> "Data Scientist", location |-> "Bengaluru, India"],
      [title |-> "Data Analyst Intern", location |-> "Remote"],
      [title |-> "Account Executive", location |-> "Seattle WA US"] }

\* job_passes_filters on those postings, evaluated once
passes_of == [p \in BoardPostings |-> job_passes_filters(p.title, p.location)]

NoPosting == [title |-> "", location |-> ""]

JAbsent == [t |-> "absent", n |-> 0, filler |-> NoPosting, last |-> NoPosting]

JScalar == [t |-> "scalar", n |-> 0, filler |-> NoPosting, last |-> NoPosting]

JInt(k) == [t |-> "int", n |-> k, filler |-> NoPosting, last |-> NoPosting]

JList(n, filler, last) ==
    [t |-> "list", n |-> n,
     filler |-> IF n > 1 THEN filler ELSE NoPosting,
     last |-> IF n > 0 THEN last ELSE NoPosting]

\* list[i]
ItemAt(list, i) == IF i = list.n THEN list.last ELSE list.filler

\* the lengths of the lists: none, one, as many as a validator looks at, and more
ListLengths == {0, 1} \cup (ValidatorScan .. (ValidatorScan + MaxBeyondScan))

PostingLists ==
    {JList(n, f, l) : n \in ListLengths, f \in BoardPostings, l \in BoardPostings}

\* what the endpoint answers: whether the board page loads (read by the Ashby validator only),
\* whether the API request returns a 200 response with a JSON body, and that body: its top-level
\* type, the list it is if it is one, and the values under the keys the validators read
Reply(page_ok, ok, top, list, jobs, content, totalFound) ==
    [page_ok |-> page_ok, ok |-> ok, top |-> top, list |-> list, jobs |-> jobs,
     content |-> content, totalFound |-> totalFound]

NoReply == Reply(FALSE, FALSE, "other", JAbsent, JAbsent, JAbsent, JAbsent)

Connectors == {"greenhouse", "lever", "smartrecruiters", "ashby"}

\* the answers of each endpoint; a SmartRecruiters page of the model holds every posting found
Replies(conn) ==
    CASE conn = "greenhouse" ->
           {NoReply, Reply(TRUE, TRUE, "list", JAbsent, JAbsent, JAbsent, JAbsent)}
           \cup {Reply(TRUE, TRUE, "dict", JAbsent, j, JAbsent, JAbsent) :
                   j \in {JAbsent, JScalar} \cup PostingLists}
      [] conn = "lever" ->
           {NoReply, Reply(TRUE, TRUE, "dict", JAbsent, JAbsent, JAbsent, JAbsent)}
           \cup {Reply(TRUE, TRUE, "list", l, JAbsent, JAbsent, JAbsent) : l \in PostingLists}
      [] conn = "smartrecruiters" ->
           {NoReply, Reply(TRUE, TRUE, "list", JAbsent, JAbsent, JAbsent, JAbsent)}
           \cup {Reply(TRUE, TRUE, "dict", JAbsent, JAbsent, c, JInt(0)) : c \in {JAbsent, JScalar}}
           \cup UNION {{Reply(TRUE, TRUE, "dict", JAbsent, JAbsent, c, t) :
                           t \in {JAbsent, JScalar, JInt(c.n)}} : c \in PostingLists}
      [] conn = "ashby" ->
           {NoReply, Reply(TRUE, FALSE, "other", JAbsent, JAbsent, JAbsent, JAbsent),
            Reply(TRUE, TRUE, "list", JAbsent, JAbsent, JAbsent, JAbsent)}
           \cup {Reply(TRUE, TRUE, "dict", JAbsent, j, JAbsent, JAbsent) :
                   j \in {JAbsent, JScalar} \cup PostingLists}

\* what a validator call comes to: the pair it returns, or the exception it lets through
Verdict(valid, reason) == [raised |-> FALSE, valid |-> valid, reason |-> reason]

ValidatorRaised == [raised |-> TRUE, valid |-> FALSE, reason |-> "HTTPError"]

\* the loop of a validator over the postings it looks at: jobs[:scan], or all of them (None)
AnyPasses(list, scan) ==
    \E i \in 1..(IF scan = None THEN list.n ELSE Min(list.n, scan[1])) : passes_of[ItemAt(list, i)]

ValidatorScanAll == None
ValidatorScanFirst == Some(ValidatorScan)

validate_greenhouse_token(r) ==
    IF ~r.ok THEN ValidatorRaised
    ELSE IF r.top /= "dict" \/ r.jobs.t /= "list" THEN Verdict(FALSE, "bad_json_shape")
    ELSE IF r.jobs.n = 0 THEN Verdict(FALSE, "no_jobs")
    ELSE IF AnyPasses(r.jobs, ValidatorScanFirst) THEN Verdict(TRUE, "ok")
    ELSE Verdict(FALSE, "no_matching_jobs")

validate_lever_token(r) ==
    IF ~r.ok THEN ValidatorRaised
    ELSE IF r.top /= "list" THEN Verdict(FALSE, "bad_json_shape")
    ELSE IF r.list.n = 0 THEN Verdict(FALSE, "no_jobs")
    ELSE IF AnyPasses(r.list, ValidatorScanFirst) THEN Verdict(TRUE, "ok")
    ELSE Verdict(FALSE, "no_matching_jobs")

validate_smartrecruiters_token(r) ==
    IF ~r.ok THEN ValidatorRaised
    ELSE IF r.top /= "dict" THEN Verdict(FALSE, "bad_json_shape")
    ELSE IF r.content.t /= "list" THEN Verdict(FALSE, "missing_content")
    ELSE IF r.totalFound.t /= "int" THEN Verdict(FALSE, "missing_totalFound")
    ELSE IF r.totalFound.n <= 0 THEN Verdict(FALSE, "no_postings")
    ELSE IF AnyPasses(r.content, ValidatorScanAll) THEN Verdict(TRUE, "ok")
    ELSE Verdict(FALSE, "no_matching_jobs")

validate_ashby_token(r) ==
    IF ~r.page_ok \/ ~r.ok THEN ValidatorRaised
    ELSE IF r.top /= "dict" THEN Verdict(FALSE, "bad_json_shape")
    ELSE LET jobs == IF r.jobs.t = "absent" THEN JList(0, NoPosting, NoPosting) ELSE r.jobs
         IN IF jobs.t /= "list" THEN Verdict(FALSE, "bad_json_shape")
            ELSE IF jobs.n = 0 THEN Verdict(FALSE, "no_jobs")
            ELSE IF AnyPasses(jobs, ValidatorScanFirst) THEN Verdict(TRUE, "ok")
            ELSE Verdict(FALSE, "no_matching_jobs")

ValIdle == [connector |-> "none", reply |-> NoReply, result |-> ValidatorRaised]

InitValidate == val = ValIdle

\* one call of a validator on a token whose endpoint answers r
ValidateGreenhouse ==
    \E r \in Replies("greenhouse") :
        val' = [connector |-> "greenhouse", reply |-> r, result |-> validate_greenhouse_token(r)]

ValidateLever ==
    \E r \in Replies("lever") :
        val' = [connector |-> "lever", reply |-> r, result |-> validate_lever_token(r)]

ValidateSmartRecruiters ==
    \E r \in Replies("smartrecruiters") :
        val' = [connector |-> "smartrecruiters", reply |-> r,
                result |-> validate_smartrecruiters_token(r)]

ValidateAshby ==
    \E r \in Replies("ashby") :
        val' = [connector |-> "ashby", reply |-> r, result |-> validate_ashby_token(r)]

NextValidate ==
    /\ \/ ValidateGreenhouse
       \/ ValidateLever
       \/ ValidateSmartRecruiters
       \/ ValidateAshby
    /\ UNCHANGED <<collectVars, netVars, pg, finder, connVars, lateVars>>

-----------------------------------------------------------------------------
(* Career page discovery: CareerPageFinder.find_career_page.  A URL is the *)
(* sequence of its characters.                                             *)

LowerAll(s) == [i \in 1..Len(s) |-> Lower(s[i])]

IsLowerAlnum(c) ==
    c \in {"a", "b", "c", "d", "e", "f", "g", "h", "i", "j", "k", "l", "m", "n", "o", "p", "q",
           "r", "s", "t", "u", "v", "w", "x", "y", "z",
           "0", "1", "2", "3", "4", "5", "6", "7", "8", "9"}

\* the first run of letters and digits of s, and what follows it
RECURSIVE WordEnd(_, _)
WordEnd(s, i) == IF i <= Len(s) /\ IsLowerAlnum(s[i]) THEN WordEnd(s, i + 1) ELSE i

\* [w for w in re.split(r'[^a-z0-9]+', base) if w]
RECURSIVE Words(_)
Words(s) ==
    IF s = <<>> THEN <<>>
    ELSE IF ~IsLowerAlnum(Head(s)) THEN Words(Tail(s))
    ELSE LET e == WordEnd(s, 1)
         IN <<SubSeq(s, 1, e - 1)>> \o Words(SubSeq(s, e, Len(s)))

\* sep.join(words)
RECURSIVE Join(_, _)
Join(words, sep) ==
    IF words = <<>> THEN <<>>
    ELSE IF Len(words) = 1 THEN words[1]
    ELSE words[1] \o sep \o Join(Tail(words), sep)

\* SecurityValidator.is_safe_company_name: re.match(r'^[a-zA-Z0-9\-]+$', name)
is_safe_company_name(name) ==
    /\ name /= <<>>
    /\ \A i \in 1..Len(name) : IsLowerAlnum(Lower(name[i])) \/ name[i] = "-"

\* _sanitize_company_name: None, or the lower-cased name without the characters [^a-zA-Z0-9\-]
_sanitize_company_name(name) ==
    LET clean == SelectSeq(LowerAll(name), LAMBDA c : IsLowerAlnum(c) \/ c = "-")
    IN IF ~is_safe_company_name(clean) THEN None ELSE Some(clean)

\* a list without the repetitions of its elements, each at its first position
Dedupe(s) ==
    LET firsts == {i \in 1..Len(s) : \A j \in 1..(i - 1) : s[j] /= s[i]}
        nth(k) == CHOOSE i \in firsts : Cardinality({j \in firsts : j <= i}) = k
    IN [k \in 1..Cardinality(firsts) |-> s[nth(k)]]

_generate_name_variants(name) ==
    LET base == LowerAll(RStrip(LStrip(name)))
        compact == SelectSeq(base, IsLowerAlnum)
        words == Words(base)
        variants ==
            (IF compact /= <<>> THEN <<compact>> ELSE <<>>)
            \o (IF words /= <<>>
                THEN <<Join(words, <<"-">>), Join(words, <<>>)>>
                     \o (IF Len(words) > 1 THEN <<words[1]>> ELSE <<>>)
                ELSE <<>>)
        cleaned == [i \in 1..Len(variants) |-> _sanitize_company_name(variants[i])]
        kept == SelectSeq(cleaned, LAMBDA v : v /= None)
        out == Dedupe([i \in 1..Len(kept) |-> kept[i][1]])
    IN IF base = <<>> THEN <<>> ELSE Take(out, MaxNameVariants)

\* the f-strings of _generate_url_patterns: what stands before and after {clean_name}
UrlTemplates ==
    << <<"https://jobs.", ".com">>,
       <<"https://careers.", ".com">>,
       <<"https://www.", ".com/careers">>,
       <<"https://", ".com/careers">>,
       <<"https://www.", ".com/jobs">>,
       <<"https://", ".com/jobs">>,
       <<"https://", ".com/careers/jobs">>,
       <<"https://www.", ".com/company/careers">>,
       <<"https://", ".com/careers/">>,
       <<"https://careers.", ".io">>,
       <<"https://", ".io/careers">>,
       <<"https://", ".co/careers">>,
       <<"https://www.", ".co/careers">>,
       <<"https://", ".ai/careers">>,
       <<"https://www.", ".ai/careers">>,
       <<"https://boards.greenhouse.io/", "">>,
       <<"https://job-boards.greenhouse.io/", "">>,
       <<"https://jobs.lever.co/", "">>,
       <<"https://jobs.ashbyhq.com/", "">>,
       <<"https://jobs.smartrecruiters.com/", "">>,
       <<"https://", ".bamboohr.com/careers">>,
       <<"https://jobs.jobvite.com/", "">>,
       <<"https://apply.workable.com/", "">>,
       <<"https://", ".workable.com">>,
       <<"https://", ".icims.com/jobs">>,
       <<"https://careers.", ".icims.com/jobs">>,
       <<"https://", ".wd5.myworkdayjobs.com">>,
       <<"https://", ".wd1.myworkdayjobs.com">> >>

_generate_url_patterns(clean_name) ==
    [k \in 1..Len(UrlTemplates) |->
        Chars[UrlTemplates[k][1]] \o clean_name \o Chars[UrlTemplates[k][2]]]

RECURSIVE Concat(_)
Concat(lists) == IF lists = <<>> THEN <<>> ELSE Head(lists) \o Concat(Tail(lists))

\* find_career_page local url_patterns: the patterns of every variant, variant by variant,
\* without repetitions (list(dict.fromkeys(url_patterns)))
url_patterns(company_name) ==
    LET clean_names == _generate_name_variants(Chars[company_name])
    IN Dedupe(Concat([v \in 1..Len(clean_names) |-> _generate_url_patterns(clean_names[v])]))

CompanyNames == {"Acme Corp", "acme", "&-&", ""}

\* url_patterns of the company names of the model, evaluated once
url_patterns_of == [n \in CompanyNames |-> url_patterns(n)]

ATS_MARKERS ==
    {"greenhouse.io", "lever.co", "ashbyhq.com", "smartrecruiters.com", "myworkdayjobs.com",
     "icims.com", "jobvite.com", "bamboohr.com", "workable.com", "/wday/cxs/", "workday"}

career_keywords == {"job", "career", "position", "opening", "opportunity", "hiring", "apply"}

\* html[:MAX_HTML_PARSE_SIZE]
Truncated(html) ==
    IF Len(html) > MAX_HTML_PARSE_SIZE THEN SubSeq(html, 1, MAX_HTML_PARSE_SIZE) ELSE html

\* JobDetector.has_ats_markers
has_ats_markers(html, url) ==
    LET haystack == LowerAll(Truncated(html) \o <<" ">> \o url)
    IN \E marker \in ATS_MARKERS : KwIn(marker, haystack)

_is_career_page(html, url) ==
    LET content_lower == LowerAll(Truncated(html))
        keyword_count == Cardinality({keyword \in career_keywords : KwIn(keyword, content_lower)})
    IN IF keyword_count >= 3 THEN TRUE
       ELSE IF has_ats_markers(html, url) THEN TRUE
       ELSE FALSE

\* the pages a candidate URL may answer with
Pages == {"Apply for a job: careers", "We are hiring", "Powered by Workday", "Page not found"}

\* what safe_get comes to for a candidate: the URL fails validate_url and is not requested
\* ("invalid"); the request fails or its answer is turned down ("error": timeout, redirects,
\* SSL, connection, content type, size); a response, whose text may fail to decode ("undecodable")
Probe(kind, status, html) == [kind |-> kind, status |-> status, html |-> html]

NoProbe == Probe("none", 0, "")

Probes ==
    {Probe("invalid", 0, ""), Probe("error", 0, ""), Probe("undecodable", 200, "")}
    \cup {Probe("response", st, h) : st \in {200, 404}, h \in Pages}

\* _is_career_page on the pages and the candidates of the model, evaluated once
is_career_page_of ==
    [n \in CompanyNames |->
        [i \in 1..Len(url_patterns_of[n]) |->
            [h \in Pages |-> _is_career_page(Chars[h], url_patterns_of[n][i])]]]

\* a request went out for the candidate
Requested(r) == r.kind /= "invalid"

\* the body of the loop over url_patterns comes to `return url`
Accepts(r, n, i) ==
    LET success == r.kind \in {"response", "undecodable"}
    IN IF ~success THEN FALSE
       ELSE IF r.status = 200
            THEN IF r.kind = "undecodable" THEN FALSE ELSE is_career_page_of[n][i][r.html]
            ELSE FALSE

FinderIdle ==
    [pc |-> "idle", company_name |-> "", i |-> 0, result |-> None,
     probe |-> NoProbe, failed |-> 0, last |-> 0, in_order |-> TRUE]

InitFinder == finder = FinderIdle

\* find_career_page(company_name), up to the loop over url_patterns
FindStart ==
    /\ finder.pc \in {"idle", "done"}
    /\ \E n \in CompanyNames :
         finder' = [FinderIdle EXCEPT
                      !.company_name = n,
                      !.pc = IF url_patterns_of[n] = <<>> THEN "done" ELSE "probing",
                      !.i = 1]
    /\ UNCHANGED <<collectVars, netVars, pg, val, connVars, lateVars>>

\* one iteration of the loop over url_patterns, and the return after the last one
ProbeCandidateGivesUp ==
    /\ finder.pc = "probing"
    /\ \E r \in Probes :
         LET urls == url_patterns_of[finder.company_name]
             url == urls[finder.i]
             asked == [finder EXCEPT
                         !.probe = r,
                         !.last = IF Requested(r) THEN finder.i ELSE @,
                         !.in_order = @ /\ (Requested(r) => finder.last < finder.i)]
         IN finder' =
              IF Accepts(r, finder.company_name, finder.i)
              THEN [asked EXCEPT !.pc = "done", !.result = Some(url)]
              ELSE [asked EXCEPT !.pc = "done", !.failed = @ + 1]
    /\ UNCHANGED <<collectVars, netVars, pg, val, connVars, lateVars>>

ProbeCandidate ==
    /\ finder.pc = "probing"
    /\ \E r \in Probes :
         LET urls == url_patterns_of[finder.company_name]
             url == urls[finder.i]
             asked == [finder EXCEPT
                         !.probe = r,
                         !.last = IF Requested(r) THEN finder.i ELSE @,
                         !.in_order = @ /\ (Requested(r) => finder.last < finder.i)]
         IN finder' =
              IF Accepts(r, finder.company_name, finder.i)
              THEN [asked EXCEPT !.pc = "done", !.result = Some(url)]
              ELSE IF finder.i < Len(urls)
                   THEN [asked EXCEPT !.i = @ + 1, !.failed = @ + 1]
                   ELSE [asked EXCEPT !.pc = "done", !.failed = @ + 1]
    /\ UNCHANGED <<collectVars, netVars, pg, val, connVars, lateVars>>

NextFinder ==
    \/ FindStart
    \/ ProbeCandidate

-----------------------------------------------------------------------------
(* job_passes_filters, called on a title and a location *)

FiltIdle == [called |-> FALSE, title |-> "", location |-> "", result |-> FALSE]

InitFilter == filt = FiltIdle

FilterCall ==
    /\ \E t \in FilterTitles, l \in FilterLocations :
         filt' = [called |-> TRUE, title |-> t, location |-> l,
                  result |-> filter_of[t, l]]
    /\ UNCHANGED <<collectVars, netVars, pg, validationVars, feed, dfr, cf, robots, ws, lateVars>>

NextFilter == FilterCall

-----------------------------------------------------------------------------
(* The posting feed: _query_jobs_for_feed, on a store that upsert_jobs     *)
(* calls have filled.                                                      *)

\* what the Lever account serves to the calls that fill the store: the openings of
\* LeverItems, and opening 8 with a date
FeedItems ==
    LeverItems \cup
    { [id |-> "8", text |-> "Data Scientist", location |-> "Remote",
       hostedUrl |-> "https://jobs.lever.co/beta/8", descriptionPlain |-> "",
       createdAt |-> Some(PostedLate)] }

\* ORDER BY CASE WHEN posted_at IS NULL THEN 1 ELSE 0 END, posted_at DESC, last_seen_at DESC:
\* row a sorts strictly before row b
OrderByBefore(a, b) ==
    LET ka == IF a.posted_at = None THEN 1 ELSE 0
        kb == IF b.posted_at = None THEN 1 ELSE 0
    IN \/ ka < kb
       \/ /\ ka = kb
          /\ \/ ka = 0 /\ a.posted_at[1] > b.posted_at[1]
             \/ /\ (ka = 1 \/ a.posted_at = b.posted_at)
                /\ a.last_seen_at > b.last_seen_at

\* the orders in which the SELECT may return the rows of the table
SelectOrdered(table) ==
    {p \in [1..Cardinality(table) -> table] :
        /\ \A i, k \in DOMAIN p : i /= k => p[i] /= p[k]
        /\ \A i, k \in DOMAIN p : i < k => ~OrderByBefore(p[k], p[i])}

\* the limit argument: None, or an int (LIMIT is added for a positive one)
FeedLimits == {None, Some(0), Some(1)}

FeedIdle == [queried |-> FALSE, limit |-> None, rows |-> <<>>]

InitFeed == feed = FeedIdle

\* upsert_jobs called with postings fetch_lever made of one answer of the account
FeedUpsert ==
    /\ pc = "idle"
    /\ \E item \in FeedItems :
         store' = UpsertAll(store, fetch_lever("beta", <<item>>, now_local), to_iso_utc(now_local))
    /\ store_prev' = store
    /\ feed' = FeedIdle
    /\ UNCHANGED <<clock, pc, opts, cutoff_utc, pending, all_jobs, errors, now_seen_iso, idx,
                   counts, results, store0, outcomes, stepped, repeated>>
    /\ UNCHANGED <<netVars, pg, validationVars, filt, dfr, cf, robots, ws, lateVars>>

\* time passes between the calls
FeedTick ==
    /\ clock < ClockEnd
    /\ clock' = clock + 1
    /\ store_prev' = store
    /\ feed' = FeedIdle
    /\ UNCHANGED <<store, pc, opts, cutoff_utc, pending, all_jobs, errors, now_seen_iso, idx,
                   counts, results, store0, outcomes, stepped, repeated>>
    /\ UNCHANGED <<netVars, pg, validationVars, filt, dfr, cf, robots, ws, lateVars>>

_query_jobs_for_feed ==
    /\ pc = "idle"
    /\ \E limit \in FeedLimits, rows \in SelectOrdered(store) :
         feed' = [queried |-> TRUE, limit |-> limit,
                  rows |-> IF limit /= None /\ limit[1] > 0 THEN Take(rows, limit[1]) ELSE rows]
    /\ UNCHANGED <<collectVars, netVars, pg, validationVars, filt, dfr, cf, robots, ws, lateVars>>

NextFeed ==
    \/ FeedUpsert
    \/ FeedTick
    \/ _query_jobs_for_feed

-----------------------------------------------------------------------------
(* collect_once *)

DefaultOpts == [days_back_posted |-> None, require_posted_at |-> FALSE, max_per_source |-> None]

\* the keyword arguments a run may be started with
OptsSet ==
    { DefaultOpts,
      [days_back_posted |-> Some(MAX_POSTING_AGE_DAYS), require_posted_at |-> TRUE,
       max_per_source |-> Some(MaxJobsPerTask)] }

keep_job(j, o, cutoff) ==
    IF o.require_posted_at /\ j.posted_at = None THEN FALSE
    ELSE IF cutoff /= None /\ j.posted_at /= None
            /\ astimezone(j.posted_at[1], 0).wall < cutoff[1] THEN FALSE
    ELSE TRUE

\* cutoff_utc of collect_once: now_local() - timedelta(days=days_back_posted), in UTC
CutoffUtc(o) ==
    IF o.days_back_posted /= None /\ o.days_back_posted[1] > 0
    THEN Some(astimezone([wall |-> now_local.wall - o.days_back_posted[1] * TicksPerDay,
                          off |-> now_local.off], 0).wall)
    ELSE None

\* extend_limited with the cap applied to the fetched list, before the recency filter
extend_limitedCapFirst(jobs, o, cutoff) ==
    LET capped == IF o.max_per_source /= None /\ o.max_per_source[1] > 0
                  THEN Take(jobs, o.max_per_source[1])
                  ELSE jobs
    IN SelectSeq(capped, LAMBDA j : keep_job(j, o, cutoff))

\* the postings extend_limited appends to all_jobs
extend_limited(jobs, o, cutoff) ==
    LET kept == SelectSeq(jobs, LAMBDA j : keep_job(j, o, cutoff))
    IN IF o.max_per_source /= None /\ o.max_per_source[1] > 0
       THEN Take(kept, o.max_per_source[1])
       ELSE kept

InitCollect ==
    /\ clock = ClockStart
    /\ store = {}
    /\ pc = "idle"
    /\ opts = DefaultOpts
    /\ cutoff_utc = None
    /\ pending = {}
    /\ all_jobs = <<>>
    /\ errors = [s \in SourceNames |-> 0]
    /\ now_seen_iso = ClockStart
    /\ idx = 1
    /\ counts = ZeroCounts
    /\ results = <<>>
    /\ store0 = {}
    /\ store_prev = {}
    /\ outcomes = <<>>
    /\ stepped = FALSE
    /\ repeated = FALSE

(* pipeline_update and its state file.  The file is missing, holds text    *)
(* that is no JSON, or holds a JSON object; a key the object lacks is None. *)

\* --first-run-days, --daily-days and --max-per-source of the pipeline command
FirstRunDays == 30

DailyDays == 2

PipelineMaxPerSource == 200

StateObject(initialized, last_run_at, days_back_used) ==
    [initialized |-> initialized, last_run_at |-> last_run_at, days_back_used |-> days_back_used]

\* {}
EmptyObject == StateObject(None, None, None)

\* {"initialized": False}
Uninitialized == StateObject(Some(FALSE), None, None)

StateFile(exists, json) == [exists |-> exists, json |-> json]

MissingFile == StateFile(FALSE, None)

\* a file whose text json.loads rejects
CorruptFile == StateFile(TRUE, None)

\* the state file a first run may find in the checkout
InitialStateFiles ==
    {MissingFile, CorruptFile, StateFile(TRUE, Some(EmptyObject)), StateFile(TRUE, Some(Uninitialized))}

\* _read_pipeline_state taking the text of a corrupted file for an initialized state
_read_pipeline_stateTrusting(file) ==
    IF ~file.exists THEN Uninitialized
    ELSE IF file.json = None THEN StateObject(Some(TRUE), None, None)
    ELSE IF file.json[1] = EmptyObject THEN Uninitialized
    ELSE file.json[1]

_read_pipeline_state(file) ==
    IF ~file.exists THEN Uninitialized
    ELSE IF file.json = None THEN Uninitialized
    ELSE IF file.json[1] = EmptyObject THEN Uninitialized
    ELSE file.json[1]

\* bool(state.get("initialized"))
Initialized(state) == state.initialized /= None /\ state.initialized[1]

PipelineStages == <<"collect_once", "export_jobs_json", "export_readme">>

PipelineIdle ==
    [pc |-> "checkout", file |-> MissingFile, file0 |-> MissingFile, state |-> Uninitialized,
     days_back |-> 0, stage |-> 0, passed |-> None, runs |-> 0, completed |-> 0,
     raised |-> FALSE, wrote_after |-> 0]

InitPipeline == pl = PipelineIdle

\* the checkout the first run works in
PipelineCheckout ==
    /\ pl.pc = "checkout"
    /\ \E f \in InitialStateFiles : pl' = [pl EXCEPT !.pc = "idle", !.file = f, !.file0 = f]
    /\ UNCHANGED <<collectVars, netVars, pg, validationVars, connVars, kl, tl, vp, cm, sg>>

\* pipeline_update up to the call of collect_once
PipelineStart ==
    /\ pl.pc = "idle"
    /\ pl.runs < MaxPipelineRuns
    /\ LET state == _read_pipeline_state(pl.file)
       IN pl' = [pl EXCEPT !.pc = "running", !.state = state, !.file0 = pl.file,
                           !.days_back = IF Initialized(state) THEN DailyDays ELSE FirstRunDays,
                           !.stage = 0, !.passed = None, !.runs = @ + 1, !.raised = FALSE]
    /\ UNCHANGED <<collectVars, netVars, pg, validationVars, connVars, kl, tl, vp, cm, sg>>

\* collect_once, export_jobs_json or export_readme returns
PipelineStage ==
    /\ pl.pc = "running"
    /\ pl.stage < Len(PipelineStages)
    /\ pl' = [pl EXCEPT !.stage = @ + 1,
                        !.passed = IF pl.stage = 0
                                   THEN Some([days_back_posted |-> Some(pl.days_back),
                                              require_posted_at |-> TRUE,
                                              max_per_source |-> Some(PipelineMaxPerSource)])
                                   ELSE @]
    /\ UNCHANGED <<collectVars, netVars, pg, validationVars, connVars, kl, tl, vp, cm, sg>>

\* collect_once, export_jobs_json or export_readme raises, and so does pipeline_update
PipelineRaise ==
    /\ pl.pc = "running"
    /\ pl.stage < Len(PipelineStages)
    /\ pl' = [pl EXCEPT !.pc = "idle", !.raised = TRUE]
    /\ UNCHANGED <<collectVars, netVars, pg, validationVars, connVars, kl, tl, vp, cm, sg>>

\* state.update({...}); _write_pipeline_state(state)
PipelineWrite ==
    /\ pl.pc = "running"
    /\ pl.stage = Len(PipelineStages)
    /\ pl' = [pl EXCEPT !.pc = "idle",
                        !.file = StateFile(TRUE, Some(StateObject(Some(TRUE),
                                     Some(to_iso_utc(now_local)), Some(pl.days_back)))),
                        !.completed = @ + 1,
                        !.wrote_after = pl.stage]
    /\ UNCHANGED <<collectVars, netVars, pg, validationVars, connVars, kl, tl, vp, cm, sg>>

-----------------------------------------------------------------------------
(* _run_validator_parallel: one task per token of the master list, taken   *)
(* up as they complete.                                                    *)

\* the lines of the master list, which load_master_company_list keeps once each
MasterTokens == {"alpha", "beta", "gamma"}

MasterLists ==
    {l \in SeqsUpTo(MasterTokens, MaxTokens) : \A i, k \in DOMAIN l : i /= k => l[i] /= l[k]}

\* what a validator call comes to: a pair, an HTTPError (with the status of its response,
\* or without a response) or another exception
ValidatorOutcomes ==
    { [kind |-> "pair", ok |-> TRUE, reason |-> "ok", code |-> None],
      [kind |-> "pair", ok |-> FALSE, reason |-> "no_jobs", code |-> None],
      [kind |-> "HTTPError", ok |-> FALSE, reason |-> "", code |-> Some("404")],
      [kind |-> "HTTPError", ok |-> FALSE, reason |-> "", code |-> None],
      [kind |-> "Exception", ok |-> FALSE, reason |-> "", code |-> None] }

\* f"http_{code}"
HttpReason == "404" :> "http_404" @@ "None" :> "http_None"

\* task(tok) -> (tok, ok, reason)
task(tok, outcome) ==
    IF outcome.kind = "pair" THEN [tok |-> tok, ok |-> outcome.ok, reason |-> outcome.reason]
    ELSE IF outcome.kind = "HTTPError"
    THEN [tok |-> tok, ok |-> FALSE,
          reason |-> HttpReason[IF outcome.code = None THEN "None" ELSE outcome.code[1]]]
    ELSE [tok |-> tok, ok |-> FALSE, reason |-> "exception"]

\* the valid tokens in the order their tasks completed
valid_orderedAsCompleted(tokens, valid) == valid

\* valid_ordered = [t for t in tokens if t in valid_set]
valid_ordered(tokens, valid) ==
    SelectSeq(tokens, LAMBDA t : \E i \in DOMAIN valid : valid[i] = t)

ParallelIdle ==
    [pc |-> "idle", tokens |-> <<>>, futures |-> {}, came |-> <<>>, valid |-> <<>>,
     invalid |-> <<>>, valid_out |-> <<>>, invalid_out |-> <<>>]

InitParallel == vp = ParallelIdle

\* the tasks are submitted
ValidatorParallelCall ==
    /\ vp.pc = "idle"
    /\ \E tokens \in MasterLists :
         vp' = [ParallelIdle EXCEPT !.pc = "running", !.tokens = tokens,
                                    !.futures = {tokens[i] : i \in DOMAIN tokens}]
    /\ UNCHANGED <<collectVars, netVars, pg, validationVars, connVars, kl, tl, pl, cm, sg>>

\* as_completed yields the future of a task, whatever its validator came to
ValidatorTaskCompleted ==
    /\ vp.pc = "running"
    /\ \E t \in vp.futures, outcome \in ValidatorOutcomes :
         LET res == task(t, outcome)
         IN vp' = [vp EXCEPT !.futures = @ \ {t},
                             !.came = Append(@, [tok |-> t, outcome |-> outcome]),
                             !.valid = IF res.ok THEN Append(@, res.tok) ELSE @,
                             !.invalid = IF res.ok THEN @ ELSE Append(@, <<res.tok, res.reason>>)]
    /\ UNCHANGED <<collectVars, netVars, pg, validationVars, connVars, kl, tl, pl, cm, sg>>

\* the two files are written
ValidatorParallelWrite ==
    /\ vp.pc = "running"
    /\ vp.futures = {}
    /\ vp' = [vp EXCEPT !.pc = "written", !.valid_out = valid_ordered(vp.tokens, vp.valid),
                        !.invalid_out = vp.invalid]
    /\ UNCHANGED <<collectVars, netVars, pg, validationVars, connVars, kl, tl, pl, cm, sg>>

ValidatorParallelReturn ==
    /\ vp.pc = "written"
    /\ vp' = ParallelIdle
    /\ UNCHANGED <<collectVars, netVars, pg, validationVars, connVars, kl, tl, pl, cm, sg>>

NextParallel ==
    \/ ValidatorParallelCall
    \/ ValidatorTaskCompleted
    \/ ValidatorParallelWrite
    \/ ValidatorParallelReturn

-----------------------------------------------------------------------------
(* The discovery pass of webscrape_validator and the mapping file it       *)
(* writes.  A line of a file is the record of its fields.                  *)

\* the master list of the discovery pass
DiscoveryCompanies == <<"alpha", "beta">>

\* what validate_company comes to for a company: (True, reason, career_url) or
\* (False, reason, ...)
CompanyVerdicts ==
    { [is_valid |-> TRUE, reason |-> "ok_jsonld", career_url |-> "https://jobs.lever.co/beta"],
      [is_valid |-> TRUE, reason |-> "ok_ats", career_url |-> "https://boards.greenhouse.io/acme"],
      [is_valid |-> FALSE, reason |-> "no_career_page", career_url |-> ""],
      [is_valid |-> FALSE, reason |-> "exception", career_url |-> ""] }

\* load_career_url_mappings: out[company] = url, line after line
RECURSIVE load_career_url_mappings(_)
load_career_url_mappings(lines) ==
    IF lines = <<>> THEN <<>>
    ELSE LET last == lines[Len(lines)]
             out == load_career_url_mappings(SubSeq(lines, 1, Len(lines) - 1))
         IN IF last.company = "" \/ last.url = "" THEN out
            ELSE [c \in DOMAIN out \cup {last.company} |->
                     IF c = last.company THEN last.url ELSE out[c]]

\* the lines save_validation_results writes to CAREER_URL_MAPPINGS
MappingLines(valid) == [i \in DOMAIN valid |-> [company |-> valid[i][1], url |-> valid[i][2]]]

DiscoveryIdle ==
    [pc |-> "idle", mappings |-> <<>>, futures |-> {}, valid |-> <<>>, invalid |-> <<>>,
     passes |-> 0, recorded |-> {}]

InitDiscovery == cm = DiscoveryIdle

\* main, validate: the companies of the master list, or its first --limit ones
DiscoveryPassStart ==
    /\ cm.pc = "idle"
    /\ cm.passes < MaxValidationPasses
    /\ \E limit \in {None, Some(1)} :
         LET companies == IF limit /= None THEN Take(DiscoveryCompanies, limit[1])
                          ELSE DiscoveryCompanies
         IN cm' = [cm EXCEPT !.pc = "validating", !.valid = <<>>, !.invalid = <<>>,
                             !.futures = {companies[i] : i \in DOMAIN companies},
                             !.passes = @ + 1]
    /\ UNCHANGED <<collectVars, netVars, pg, validationVars, connVars, kl, tl, pl, vp, sg>>

\* validate_companies_parallel: the task of a company completes
CompanyValidated ==
    /\ cm.pc = "validating"
    /\ \E company \in cm.futures, v \in CompanyVerdicts :
         cm' = [cm EXCEPT !.futures = @ \ {company},
                          !.valid = IF v.is_valid THEN Append(@, <<company, v.career_url>>) ELSE @,
                          !.invalid = IF v.is_valid THEN @ ELSE Append(@, <<company, v.reason>>)]
    /\ UNCHANGED <<collectVars, netVars, pg, validationVars, connVars, kl, tl, pl, vp, sg>>

\* save_validation_results(valid, invalid)
save_validation_results ==
    /\ cm.pc = "validating"
    /\ cm.futures = {}
    /\ cm' = [cm EXCEPT !.pc = "idle", !.mappings = MappingLines(cm.valid),
                        !.recorded = @ \cup {cm.valid[i][1] : i \in DOMAIN cm.valid}]
    /\ UNCHANGED <<collectVars, netVars, pg, validationVars, connVars, kl, tl, pl, vp, sg>>

NextDiscovery ==
    \/ DiscoveryPassStart
    \/ CompanyValidated
    \/ save_validation_results

-----------------------------------------------------------------------------
(* The gateway of the discovery validator: SecurityValidator.validate_url   *)
(* and SafeHTTPSession.safe_get.  The records of a hostname are the        *)
(* sequence of its addresses, in the order the resolver gives them.        *)

MAX_REDIRECTS == 3

\* BLOCKED_NETWORKS of webscrape_validator
VALIDATOR_BLOCKED_NETWORKS ==
    { Net(IPv4(0, 0, 0, 0), 8), Net(IPv4(10, 0, 0, 0), 8), Net(IPv4(127, 0, 0, 0), 8),
      Net(IPv4(169, 254, 0, 0), 16), Net(IPv4(172, 16, 0, 0), 12), Net(IPv4(192, 168, 0, 0), 16),
      Net(IPv4(224, 0, 0, 0), 4), Net(IPv4(240, 0, 0, 0), 4) }

Records(addrs) == [ok |-> TRUE, addrs |-> addrs]

\* what the resolver may hold for the hostname of a URL
GatewayRecords ==
    { [ok |-> FALSE, addrs |-> <<>>],
      Records(<<Public4>>),
      Records(<<Public4, IPv4(10, 0, 0, 5)>>),
      Records(<<IPv4(10, 0, 0, 5), Public4>>),
      Records(<<IPv4(127, 0, 0, 1)>>),
      Records(<<Public6>>),
      Records(<<Public4, IPv4(169, 254, 169, 254), Public6>>) }

\* socket.gethostbyname(hostname): the first IPv4 address, or None for socket.gaierror
gethostbyname(records) ==
    LET v4 == SelectSeq(records.addrs, LAMBDA ip : ip.v = 4)
    IN IF ~records.ok \/ v4 = <<>> THEN None ELSE Some(v4[1])

\* SecurityValidator.is_safe_ip
is_safe_ip(ip) ==
    IF \E network \in VALIDATOR_BLOCKED_NETWORKS : InNetwork(ip, network)
    THEN [ok |-> FALSE, reason |-> "blocked_network"]
    ELSE [ok |-> TRUE, reason |-> "ok"]

\* SecurityValidator.resolve_and_validate_hostname
resolve_and_validate_hostname(records) ==
    LET ip == gethostbyname(records)
    IN IF ip = None THEN [ok |-> FALSE, reason |-> "dns_resolution_failed"]
       ELSE is_safe_ip(ip[1])

\* SecurityValidator.validate_url
validate_url(url, records) ==
    LET parsed == urlparse[url]
    IN IF parsed.scheme \notin {"http", "https"} THEN [ok |-> FALSE, reason |-> "invalid_scheme"]
       ELSE IF parsed.hostname = None \/ parsed.hostname = Some("")
            THEN [ok |-> FALSE, reason |-> "no_hostname"]
       ELSE resolve_and_validate_hostname(records)

\* the Location of a redirect response, and its host
RedirectHost ==
       "https://api.lever.co/v0/postings/beta/" :> "api.lever.co"
    @@ "http://169.254.169.254/latest/meta-data/" :> "169.254.169.254"
    @@ "https://intranet.corp.example/careers" :> "intranet.corp.example"

SessionIdle ==
    [pc |-> "idle", url |-> "", records |-> Records(<<>>), validated |-> {}, requests |-> <<>>,
     result |-> [success |-> FALSE, reason |-> ""]]

InitSession == sg = SessionIdle

\* safe_get(url, timeout) up to the first request of self.session.get
SafeGetCall ==
    /\ sg.pc = "idle"
    /\ \E url \in Urls, records \in GatewayRecords :
         LET v == validate_url(url, records)
         IN sg' = IF ~v.ok
                  THEN [SessionIdle EXCEPT !.pc = "returned", !.url = url, !.records = records,
                                           !.result = [success |-> FALSE, reason |-> v.reason]]
                  ELSE [SessionIdle EXCEPT !.pc = "requested", !.url = url, !.records = records,
                                           !.validated = {urlparse[url].hostname[1]},
                                           !.requests = <<[url |-> url,
                                                           host |-> urlparse[url].hostname[1]]>>]
    /\ UNCHANGED <<collectVars, netVars, pg, validationVars, connVars, kl, tl, pl, vp, cm>>

\* self.session.get, allow_redirects=True: a redirect is answered and followed, up to
\* max_redirects times
SafeGetRedirect ==
    /\ sg.pc = "requested"
    /\ \E location \in DOMAIN RedirectHost :
         sg' = IF Len(sg.requests) > MAX_REDIRECTS
               THEN [sg EXCEPT !.pc = "returned",
                               !.result = [success |-> FALSE, reason |-> "too_many_redirects"]]
               ELSE [sg EXCEPT !.requests = Append(@, [url |-> location,
                                                       host |-> RedirectHost[location]])]
    /\ UNCHANGED <<collectVars, netVars, pg, validationVars, connVars, kl, tl, pl, vp, cm>>

\* the final response arrives, or the request fails
SafeGetResponse ==
    /\ sg.pc = "requested"
    /\ \E reason \in {"ok", "invalid_content_type", "response_too_large", "timeout",
                      "connection_error"} :
         sg' = [sg EXCEPT !.pc = "returned",
                          !.result = [success |-> reason = "ok", reason |-> reason]]
    /\ UNCHANGED <<collectVars, netVars, pg, validationVars, connVars, kl, tl, pl, vp, cm>>

SafeGetReturn ==
    /\ sg.pc = "returned"
    /\ sg' = SessionIdle
    /\ UNCHANGED <<collectVars, netVars, pg, validationVars, connVars, kl, tl, pl, vp, cm>>

NextSession ==
    \/ SafeGetCall
    \/ SafeGetRedirect
    \/ SafeGetResponse
    \/ SafeGetReturn

-----------------------------------------------------------------------------
(* extend_limited on its own: any options of the command line, any fetched *)
(* list.                                                                   *)

\* --days-back-posted, --require-posted-at and --max-per-source, each given or not
KeepOpts ==
    [days_back_posted : {None, Some(0), Some(MAX_POSTING_AGE_DAYS - 1), Some(MAX_POSTING_AGE_DAYS)},
     require_posted_at : BOOLEAN,
     max_per_source : {None, Some(0), Some(MaxJobsPerTask)}]

\* what a Lever account may return: openings undated, dated long ago and dated now
KeepItems ==
    { [id |-> i, text |-> "Data Scientist", location |-> "Remote",
       hostedUrl |-> "https://jobs.lever.co/beta/8", descriptionPlain |-> "",
       createdAt |-> c] : i \in {"7", "8"}, c \in {None, Some(PostedLate), Some(ClockStart)} }

KeepIdle == [pc |-> "idle", opts |-> DefaultOpts, cutoff |-> None, jobs |-> <<>>, kept |-> <<>>]

InitKeep == kl = KeepIdle

\* a fetch task's result reaches extend_limited
ExtendLimitedCall ==
    /\ kl.pc = "idle"
    /\ \E o \in KeepOpts, data \in SeqsUpTo(KeepItems, MaxJobsPerTask + 1) :
         LET jobs == fetch_lever("beta", data, now_local)
         IN kl' = [pc |-> "called", opts |-> o, cutoff |-> CutoffUtc(o), jobs |-> jobs,
                   kept |-> extend_limited(jobs, o, CutoffUtc(o))]
    /\ UNCHANGED <<collectVars, netVars, pg, validationVars, connVars, tl, pl, vp, cm, sg>>

ExtendLimitedReturn ==
    /\ kl.pc = "called"
    /\ kl' = KeepIdle
    /\ UNCHANGED <<collectVars, netVars, pg, validationVars, connVars, tl, pl, vp, cm, sg>>

NextKeep ==
    \/ ExtendLimitedCall
    \/ ExtendLimitedReturn

-----------------------------------------------------------------------------
Init == InitCollect /\ InitNet /\ InitPages /\ InitValidate /\ InitFinder
        /\ InitFilter /\ InitFeed /\ InitDefer /\ InitConnector /\ InitScrape
        /\ InitKeep /\ InitLock /\ InitPipeline /\ InitParallel
        /\ InitDiscovery /\ InitSession

\* time passes, a day at a time
Tick ==
    /\ clock < ClockEnd
    /\ clock' = clock + TicksPerDay
    /\ store_prev' = store
    /\ stepped' = FALSE
    /\ UNCHANGED <<store, pc, opts, cutoff_utc, pending, all_jobs, errors, now_seen_iso, idx,
                   counts, results, store0, outcomes, repeated>>
    /\ UNCHANGED <<netVars, pg, validationVars, connVars, lateVars>>

\* collect_once up to the submission of the fetch tasks
CollectStart ==
    /\ pc = "idle"
    /\ \E o \in OptsSet :
         /\ opts' = o
         /\ cutoff_utc' = CutoffUtc(o)
    /\ pc' = "fetching"
    /\ pending' = Tasks
    /\ all_jobs' = <<>>
    /\ errors' = [s \in SourceNames |-> 0]
    /\ results' = <<>>
    /\ store_prev' = store
    /\ stepped' = FALSE
    /\ UNCHANGED <<clock, store, now_seen_iso, idx, counts, store0, outcomes, repeated>>
    /\ UNCHANGED <<netVars, pg, validationVars, connVars, lateVars>>

\* as_completed yields a task that returned: jobs = fut.result(); extend_limited(jobs)
TaskReturn ==
    /\ pc = "fetching"
    /\ \E t \in pending : \E data \in Responses(t) :
         LET kept == extend_limited(Fetch(t, data, now_local), opts, cutoff_utc)
         IN /\ pending' = pending \ {t}
            /\ all_jobs' = all_jobs \o kept
            /\ results' = Append(results, [task |-> t, jobs |-> kept])
    /\ store_prev' = store
    /\ stepped' = FALSE
    /\ UNCHANGED <<clock, store, pc, opts, cutoff_utc, errors, now_seen_iso, idx, counts,
                   store0, outcomes, repeated>>
    /\ UNCHANGED <<netVars, pg, validationVars, connVars, lateVars>>

TaskRaiseUncounted ==
    /\ pc = "fetching"
    /\ \E t \in pending : pending' = pending \ {t}
    /\ store_prev' = store
    /\ stepped' = FALSE
    /\ UNCHANGED <<clock, store, pc, opts, cutoff_utc, all_jobs, errors, now_seen_iso, idx, counts,
                   results, store0, outcomes, repeated>>
    /\ UNCHANGED <<netVars, pg, validationVars, connVars, lateVars>>

\* as_completed yields a task that raised: errors[source] += 1
TaskRaise ==
    /\ pc = "fetching"
    /\ \E t \in pending :
         /\ pending' = pending \ {t}
         /\ errors' = [errors EXCEPT ![t.source] = @ + 1]
    /\ store_prev' = store
    /\ stepped' = FALSE
    /\ UNCHANGED <<clock, store, pc, opts, cutoff_utc, all_jobs, now_seen_iso, idx, counts,
                   results, store0, outcomes, repeated>>
    /\ UNCHANGED <<netVars, pg, validationVars, connVars, lateVars>>

UpsertBeginBeforeTasksEnd ==
    /\ pc = "fetching"
    /\ pc' = "merging"
    /\ now_seen_iso' = to_iso_utc(now_local)
    /\ idx' = 1
    /\ counts' = ZeroCounts
    /\ store0' = store
    /\ store_prev' = store
    /\ outcomes' = <<>>
    /\ stepped' = FALSE
    /\ UNCHANGED <<clock, store, opts, cutoff_utc, pending, all_jobs, errors, results, repeated>>
    /\ UNCHANGED <<netVars, pg, validationVars, connVars, lateVars>>

\* upsert_jobs(all_jobs) is entered once every future has been collected
UpsertBegin ==
    /\ pc = "fetching"
    /\ pending = {}
    /\ pc' = "merging"
    /\ now_seen_iso' = to_iso_utc(now_local)
    /\ idx' = 1
    /\ counts' = ZeroCounts
    /\ store0' = store
    /\ store_prev' = store
    /\ outcomes' = <<>>
    /\ stepped' = FALSE
    /\ UNCHANGED <<clock, store, opts, cutoff_utc, pending, all_jobs, errors, results, repeated>>
    /\ UNCHANGED <<netVars, pg, validationVars, connVars, lateVars>>

\* one iteration of `for j in jobs`
UpsertStep ==
    /\ pc = "merging"
    /\ idx <= Len(all_jobs)
    /\ LET j == all_jobs[idx]
           s2 == UpsertJob(store, j, now_seen_iso)
       IN /\ store' = s2
          /\ IF IsInvalidJob(j)
             THEN /\ counts' = [counts EXCEPT !.skipped_invalid = @ + 1]
                  /\ outcomes' = Append(outcomes, "skipped_invalid")
             ELSE IF is_stale_posting(j.posted_at)
             THEN /\ counts' = [counts EXCEPT !.skipped_stale = @ + 1]
                  /\ outcomes' = Append(outcomes, "skipped_stale")
             ELSE /\ counts' = IF existed(s2, j)
                               THEN [counts EXCEPT !.updated_existing = @ + 1]
                               ELSE [counts EXCEPT !.inserted = @ + 1]
                  /\ outcomes' = Append(outcomes,
                        IF ConflictingRows(store, InsertValues(j, now_seen_iso, 0)) = {}
                        THEN "insert" ELSE "update")
    /\ idx' = idx + 1
    /\ store_prev' = store
    /\ stepped' = TRUE
    /\ UNCHANGED <<clock, pc, opts, cutoff_utc, pending, all_jobs, errors, now_seen_iso,
                   results, store0, repeated>>
    /\ UNCHANGED <<netVars, pg, validationVars, connVars, lateVars>>

PassDone == pc = "merging" /\ idx > Len(all_jobs)

\* upsert_jobs returns its counts and collect_once prints its report
CollectDone ==
    /\ PassDone
    /\ pc' = "idle"
    /\ all_jobs' = <<>>
    /\ results' = <<>>
    /\ idx' = 1
    /\ counts' = ZeroCounts
    /\ errors' = [s \in SourceNames |-> 0]
    /\ opts' = DefaultOpts
    /\ cutoff_utc' = None
    /\ store0' = store
    /\ store_prev' = store
    /\ outcomes' = <<>>
    /\ stepped' = FALSE
    /\ repeated' = FALSE
    /\ UNCHANGED <<clock, store, pending, now_seen_iso>>
    /\ UNCHANGED <<netVars, pg, validationVars, connVars, lateVars>>

\* upsert_jobs is called again with the list it was just given
UpsertAgain ==
    /\ PassDone
    /\ ~repeated
    /\ all_jobs /= <<>>
    /\ repeated' = TRUE
    /\ now_seen_iso' = to_iso_utc(now_local)
    /\ idx' = 1
    /\ counts' = ZeroCounts
    /\ store0' = store
    /\ store_prev' = store
    /\ outcomes' = <<>>
    /\ stepped' = FALSE
    /\ UNCHANGED <<clock, store, pc, opts, cutoff_utc, pending, all_jobs, errors, results>>
    /\ UNCHANGED <<netVars, pg, validationVars, connVars, lateVars>>

Next ==
    \/ Tick
    \/ CollectStart
    \/ TaskReturn
    \/ TaskRaise
    \/ UpsertBegin
    \/ UpsertStep
    \/ CollectDone

Spec == Init /\ [][Next]_vars

NextTwice ==
    \/ Next
    \/ UpsertAgain

\* the runs of collect_once, and upsert_jobs also called twice in succession on one list
SpecTwice == Init /\ [][NextTwice]_vars

\* the worker threads' calls of the HTTP client
SpecHttp == Init /\ [][NextHttp]_vars

\* the worker threads' calls of the HTTP client while the DNS records change
SpecGate == Init /\ [][NextGate]_vars

\* the worker threads' calls of the throttler
SpecThrottle == Init /\ [][NextThrottle]_vars

\* the calls of the paginated connectors
SpecPages == Init /\ [][NextPages]_vars

\* the token validators, called on every answer of their endpoints
SpecValidate == Init /\ [][NextValidate]_vars

\* career page discovery, for every company name and every answer of the candidates
SpecFinder == Init /\ [][NextFinder]_vars

\* the filter engine, called on every title and location of the model
SpecFilter == Init /\ [][NextFilter]_vars

\* the feed query, on the stores that upsert_jobs calls leave
SpecFeed == Init /\ [][NextFeed]_vars

\* fetch_webscrape, called again and again with the robots cache kept
SpecScrape == Init /\ [][NextScrape]_vars

\* the threads of a RequestThrottler, with its lock
SpecLock == Init /\ [][NextLock]_vars

\* the same under fair scheduling: a thread that can take a step takes it, a sleep ends
FairLock == Init /\ [][NextLock]_vars
            /\ \A t \in Threads : WF_vars(LockAcquire(t)) /\ WF_vars(LockBody(t)) /\ WF_vars(LockWake(t))
            /\ WF_vars(LockElapse)

NextPipeline ==
    \/ PipelineCheckout
    \/ PipelineStart
    \/ PipelineStage
    \/ PipelineRaise
    \/ PipelineWrite
    \/ Tick

\* runs of pipeline_update, one after the other, over the days
SpecPipeline == Init /\ [][NextPipeline]_vars

\* _run_validator_parallel over any master list, its tasks completing in any order
SpecParallel == Init /\ [][NextParallel]_vars

\* discovery passes, one after the other
SpecDiscovery == Init /\ [][NextDiscovery]_vars

\* calls of SafeHTTPSession.safe_get, whatever the hostname resolves to
SpecSession == Init /\ [][NextSession]_vars

\* extend_limited, given any options and any fetched list
SpecKeep == Init /\ [][NextKeep]_vars

\* the connectors, each given any items
SpecConnector == Init /\ [][NextConnector]_vars

\* _validate_request_url alone, called by two workers
SpecResolve == Init /\ [][NextResolve]_vars

\* the throttler under wait calls for one host and defer calls for two
SpecDefer == Init /\ [][NextDefer]_vars

-----------------------------------------------------------------------------
(* Notions the properties are stated in *)

Key(r) == <<r.source, r.job_id>>

Keys(s) == {Key(r) : r \in s}

RowOf(s, k) == CHOOSE r \in s : Key(r) = k

\* every field of every row but last_seen_at
Proj(s) == {[r EXCEPT !.last_seen_at = 0] : r \in s}

IsBlank(d) == d = None \/ d = Some("")

\* the posting the last loop iteration of upsert_jobs handled, and what it did with it
LastJob == all_jobs[idx - 1]

LastOutcome == IF stepped THEN outcomes[Len(outcomes)] ELSE "none"

\* a loop iteration has just merged an observation into a row that was stored
Merged == stepped /\ LastOutcome = "update"

\* the age of a dated posting now, in ticks
AgeTicks(j) == clock - to_iso_utc(j.posted_at[1])

CountOf(seq, x) == Cardinality({i \in DOMAIN seq : seq[i] = x})

RECURSIVE Flatten(_)
Flatten(ss) == IF ss = <<>> THEN <<>> ELSE Head(ss) \o Flatten(Tail(ss))

-----------------------------------------------------------------------------
(* Properties *)

\* C1: whatever lists upsert_jobs has merged, in one run or several, with a key
\* repeated or not, the store holds at most one row per (source, job_id).
NaturalKeyUnique ==
    \A r1, r2 \in store : Key(r1) = Key(r2) => r1 = r2

\* C1 witness: a list that carries one key twice, under different titles and
\* companies, has been merged into a store that already held that key from an
\* earlier run.
NaturalKeyUniqueWitness ==
    /\ PassDone
    /\ Merged
    /\ Len(all_jobs) = 2
    /\ Key(all_jobs[1]) = Key(all_jobs[2])
    /\ Key(all_jobs[1]) \in Keys(store0)
    /\ all_jobs[1].title /= all_jobs[2].title
    /\ all_jobs[1].company /= all_jobs[2].company
    /\ outcomes = <<"update", "update">>

\* C2: a second upsert_jobs call on the list of the call before it leaves the same
\* rows with the same fields, last_seen_at excepted; last_seen_at never moves back,
\* and is the time of the second call in every row the second call merges.
UpsertIdempotent ==
    (PassDone /\ repeated) =>
        /\ Proj(store) = Proj(store0)
        /\ Keys(store) = Keys(store0)
        /\ \A r \in store : r.last_seen_at >= RowOf(store0, Key(r)).last_seen_at
        /\ \A i \in DOMAIN outcomes :
              outcomes[i] \in {"insert", "update"} =>
                  RowOf(store, Key(all_jobs[i])).last_seen_at = now_seen_iso

\* C2 witness: the second call came a day after the first, merged both postings of
\* the list again, and moved last_seen_at forward.
UpsertIdempotentWitness ==
    /\ PassDone
    /\ repeated
    /\ Merged
    /\ Len(all_jobs) = 2
    /\ RowOf(store, Key(LastJob)).last_seen_at > RowOf(store0, Key(LastJob)).last_seen_at
    /\ RowOf(store, Key(LastJob)).score > 0

\* C3: when a loop iteration handles a posting whose key is stored, the stored row
\* keeps its title, company, location, url and first_seen_at, no row is added or
\* removed, and no other row changes.
UpdateFrame ==
    (stepped /\ Key(LastJob) \in Keys(store_prev)) =>
        LET k == Key(LastJob)
            old == RowOf(store_prev, k)
        IN /\ Keys(store) = Keys(store_prev)
           /\ \A r \in store_prev : Key(r) /= k => r \in store
           /\ \E new \in store :
                 /\ Key(new) = k
                 /\ new.title = old.title
                 /\ new.company = old.company
                 /\ new.location = old.location
                 /\ new.url = old.url
                 /\ new.first_seen_at = old.first_seen_at

\* C3 witness: a stored row was merged with an observation that differs from it in
\* title, company, location and first_seen_at, while another row is stored.
UpdateFrameWitness ==
    /\ Merged
    /\ Cardinality(store) = 2
    /\ RowOf(store, Key(LastJob)) /= RowOf(store_prev, Key(LastJob))
    /\ LastJob.title /= RowOf(store, Key(LastJob)).title
    /\ LastJob.company /= RowOf(store, Key(LastJob)).company
    /\ LastJob.location /= RowOf(store, Key(LastJob)).location
    /\ first_seen_at_iso(LastJob) /= RowOf(store, Key(LastJob)).first_seen_at

\* C4: a stored posted_at changes only from absent to present: a row that has one
\* keeps exactly that value through every step.
PostedAtOnlyFilledIn ==
    \A r \in store_prev : r.posted_at /= None =>
        \E r2 \in store : Key(r2) = Key(r) /\ r2.posted_at = r.posted_at

\* C4 witness: a row with a posted_at was merged with an observation carrying a
\* different posted_at, and kept its own.
PostedAtOnlyFilledInWitness ==
    /\ Merged
    /\ LastJob.posted_at /= None
    /\ RowOf(store_prev, Key(LastJob)).posted_at /= None
    /\ RowOf(store_prev, Key(LastJob)).posted_at /= posted_at_iso(LastJob)

\* C5: a stored description changes only from empty (NULL or '') to non-empty: a
\* row with a non-empty description keeps it through every step.
DescriptionOnlyFilledIn ==
    \A r \in store_prev : \E r2 \in store :
        /\ Key(r2) = Key(r)
        /\ r2.description /= r.description =>
               IsBlank(r.description) /\ ~IsBlank(r2.description)

\* C5 witness: a row with a non-empty description was merged with an observation
\* whose description is non-empty and different, and kept its own.
DescriptionOnlyFilledInWitness ==
    /\ Merged
    /\ ~IsBlank(RowOf(store_prev, Key(LastJob)).description)
    /\ LastJob.description /= ""
    /\ RowOf(store_prev, Key(LastJob)).description /= Some(LastJob.description)

\* C6: no step lowers a stored score, and a merge into a stored row leaves the
\* maximum of the stored score and the score computed for the new observation.
ScoreIsRunningMax ==
    /\ \A r \in store_prev : \E r2 \in store : Key(r2) = Key(r) /\ r2.score >= r.score
    /\ Merged =>
           RowOf(store, Key(LastJob)).score =
               Max(RowOf(store_prev, Key(LastJob)).score,
                   score_of[LastJob.title, LastJob.location, LastJob.description])

\* C6 witness: a row was merged with an observation that scores lower than the row.
ScoreIsRunningMaxWitness ==
    /\ Merged
    /\ score_of[LastJob.title, LastJob.location, LastJob.description]
           < RowOf(store_prev, Key(LastJob)).score

\* C7: at the end of a merge pass the stored rows, last_seen_at excepted, are those
\* any other completion order of the same task results would have left.
CompletionOrderIndependent ==
    (PassDone /\ ~repeated /\ now_seen_iso = to_iso_utc(now_local)) =>
        \A p \in Permutations(DOMAIN results) :
            Proj(UpsertAll(store0, Flatten([i \in DOMAIN results |-> results[p[i]].jobs]),
                           now_seen_iso))
                = Proj(store)

\* C8: a loop iteration given a well-formed posting whose key is stored leaves that
\* row's last_seen_at at the time of the pass.
LastSeenAlwaysRefreshed ==
    (stepped /\ ~IsInvalidJob(LastJob) /\ Key(LastJob) \in Keys(store_prev)) =>
        RowOf(store, Key(LastJob)).last_seen_at = now_seen_iso

\* C9: no step removes a stored row; a row changes only when a loop iteration merges
\* an observation of its key, so a row whose posting is stale, malformed or no
\* longer returned stays as it is.
RowsNeverRemoved ==
    /\ Keys(store_prev) \subseteq Keys(store)
    /\ \A r \in store_prev : r \in store \/ (Merged /\ Key(LastJob) = Key(r))

\* C9 witness: a stale observation of a stored key was skipped with the row still
\* stored, next to a row whose key the run did not return at all.
RowsNeverRemovedWitness ==
    /\ stepped
    /\ LastOutcome = "skipped_stale"
    /\ Key(LastJob) \in Keys(store)
    /\ \E r \in store : \A i \in DOMAIN all_jobs : Key(all_jobs[i]) /= Key(r)

\* C10: a well-formed posting aged exactly MAX_POSTING_AGE_DAYS + 1 days is skipped
\* and counted skipped_stale; one aged exactly MAX_POSTING_AGE_DAYS days, or undated,
\* is stored and not counted stale.
StalenessBoundary ==
    /\ pc = "merging" => counts.skipped_stale = CountOf(outcomes, "skipped_stale")
    /\ (stepped /\ ~IsInvalidJob(LastJob)) =>
           LET j == LastJob
               rejected == store = store_prev /\ LastOutcome = "skipped_stale"
               accepted == /\ LastOutcome \in {"insert", "update"}
                           /\ Key(j) \in Keys(store)
                           /\ RowOf(store, Key(j)).last_seen_at = now_seen_iso
           IN /\ j.posted_at = None => accepted
              /\ (j.posted_at /= None
                  /\ AgeTicks(j) = (MAX_POSTING_AGE_DAYS + 1) * TicksPerDay) => rejected
              /\ (j.posted_at /= None
                  /\ AgeTicks(j) = MAX_POSTING_AGE_DAYS * TicksPerDay) => accepted

\* C10 witness: a posting aged exactly MAX_POSTING_AGE_DAYS + 1 days was skipped as
\* stale, in a store holding a row merged when it was exactly MAX_POSTING_AGE_DAYS old.
StalenessBoundaryWitness ==
    /\ stepped
    /\ LastOutcome = "skipped_stale"
    /\ AgeTicks(LastJob) = (MAX_POSTING_AGE_DAYS + 1) * TicksPerDay
    /\ \E r \in store :
          /\ r.posted_at /= None
          /\ r.last_seen_at - r.posted_at[1] = MAX_POSTING_AGE_DAYS * TicksPerDay

\* addresses of every blocked kind
BlockedSamples ==
    { IPv4(127, 0, 0, 1), IPv4(10, 0, 0, 5), IPv4(172, 31, 255, 254), IPv4(192, 168, 1, 1),
      IPv4(169, 254, 169, 254), IPv4(100, 64, 0, 1), IPv4(0, 0, 0, 0), IPv4(224, 0, 0, 1),
      IPv4(240, 0, 0, 1), IPv6(0, 0, 0, 0, 0, 0, 0, 1), IPv6(0, 0, 0, 0, 0, 0, 0, 0),
      IPv6(65152, 0, 0, 0, 0, 0, 0, 1), IPv6(64768, 0, 0, 0, 0, 0, 0, 1),
      IPv6(65282, 0, 0, 0, 0, 0, 0, 1), NotAnAddress }

BlockedSamplesTurnedAway ==
    /\ \A ip \in BlockedSamples : _ip_is_blocked(ip)
    /\ ~_ip_is_blocked(Public4)
    /\ ~_ip_is_blocked(Public6)
    /\ ~_ip_is_blocked(IPv4(172, 32, 0, 1))

\* the call of worker c was given a URL the gateway must reject
MustReject(c) ==
    LET parsed == urlparse[call[c].url]
    IN \/ parsed.scheme \notin {"http", "https"}
       \/ parsed.hostname = None
       \/ /\ call[c].resolved /= None
          /\ \E ip \in call[c].resolved[1].addrs : ip \in BlockedSamples

\* C11: a call given a URL whose scheme is not http(s), that has no hostname, or
\* whose hostname the validation resolves to addresses of which at least one is
\* blocked, ends rejected with no request sent and no loop iteration begun; a
\* rejected call has sent nothing.
GatewayRejectsBeforeLoop ==
    /\ BlockedSamplesTurnedAway
    /\ \A c \in Callers :
          /\ (call[c].url /= "" /\ call[c].pc /= "resolve" /\ MustReject(c)) =>
                 /\ call[c].pc = "done"
                 /\ call[c].result = Rejected
                 /\ call[c].sent = 0
                 /\ call[c].attempt = 0
          /\ call[c].result = Rejected => call[c].sent = 0 /\ call[c].pc = "done"

\* C11 witness: a hostname resolving to a public and a private address was rejected
\* with no request sent, while the other worker's call of the same URL, validated
\* before the records changed, sent its request.
GatewayRejectsBeforeLoopWitness ==
    /\ call["w1"].pc = "done"
    /\ call["w1"].result = Rejected
    /\ call["w1"].resolved = Some(Answer({Public4, IPv4(10, 0, 0, 5)}))
    /\ call["w1"].sent = 0
    /\ call["w2"].url = call["w1"].url
    /\ call["w2"].sent > 0

\* C12: no request is sent while the hostname resolves to a blocked address.
NoRequestToBlockedAddress ==
    last_req.by /= "" => ~last_req.blocked

\* C13: any two grants of RequestThrottler.wait for the host key, to whichever
\* workers, are at least the interval apart.
SlotsAtLeastIntervalApart ==
    Len(grants) = 2 => grants[2].at - grants[1].at >= thr_default[1]

\* C13 witness: two workers were granted slots exactly the largest interval apart,
\* the second after sleeping.
SlotsAtLeastIntervalApartWitness ==
    /\ Len(grants) = 2
    /\ grants[1].by /= grants[2].by
    /\ thr_default = Some(MaxInterval)
    /\ grants[2].at - grants[1].at = MaxInterval

\* C14: no request is sent earlier than min(N, 60) seconds after a 429 response
\* that carried Retry-After: N.
RetryAfterHonoured ==
    last_req.by /= "" => last_req.at >= last_req.due

ErrorOf(resp) == IF resp.kind \in {"Timeout", "ConnectionError"} THEN resp.kind ELSE "HTTPError"

\* C15: a call never sends more than max_retries + 1 requests and is never stuck;
\* when every attempt failed transiently it ends having sent exactly
\* max_retries + 1 requests, with the error of the last attempt and no value.
ExhaustedRetriesSurfaceLastError ==
    \A c \in {"w1"} :
        /\ call[c].sent <= call[c].max_retries + 1
        /\ call[c].attempt <= call[c].max_retries
        /\ call[c].pc \notin {"idle", "done"} =>
               ENABLED (HttpResolve(c) \/ HttpWait(c) \/ HttpWake(c)
                        \/ HttpSend(c, HttpResponses) \/ HttpHandle(c) \/ Elapse)
        /\ (call[c].pc = "done" /\ call[c].sent > 0 /\ call[c].transient) =>
               /\ call[c].sent = call[c].max_retries + 1
               /\ call[c].result = Raised(ErrorOf(call[c].resp))

\* C15 witness: a call past the throttler with the largest max_retries ended with
\* the timeout of its last attempt after a 429 on an earlier one.
ExhaustedRetriesSurfaceLastErrorWitness ==
    /\ call["w1"].pc = "done"
    /\ call["w1"].throttler
    /\ call["w1"].max_retries = MaxRetries
    /\ call["w1"].sent = MaxRetries + 1
    /\ call["w1"].transient
    /\ call["w1"].result = Raised("Timeout")
    /\ hold > 0

\* C16: a call of fetch_smartrecruiters, and the search loop of
\* fetch_workday_from_career_url for each endpoint, requests at most 50 pages.
PageRequestsCapped ==
    /\ pg.conn = "smartrecruiters" => Len(pg.offsets) <= SmartRecruitersMaxPages
    /\ pg.conn = "workday" => Len(pg.offsets) <= WorkdayMaxPages
    /\ pg.page = Len(pg.offsets)

\* C16 witness: the search loop of the second Workday endpoint stopped after 50
\* requests, each answered with a full page and a total count beyond them.
PageRequestsCappedWitness ==
    /\ pg.pc = "done"
    /\ pg.conn = "workday"
    /\ pg.ep = 2
    /\ Len(pg.offsets) = WorkdayMaxPages
    /\ pg.last.n = WorkdayLimit
    /\ pg.last.total = Some(WorkdayMaxPages * WorkdayLimit + 1)
    /\ pg.out = WorkdayMaxPages * WorkdayLimit

\* C17: the offsets a loop requested are 0, limit, 2*limit, ... in this order, and no
\* request follows a page that is empty or whose offset + limit reaches the total.
OffsetsAscendAndStop ==
    LET limit == IF pg.conn = "smartrecruiters" THEN SmartRecruitersLimit ELSE WorkdayLimit
        k == Len(pg.offsets)
    IN /\ \A i \in DOMAIN pg.offsets : pg.offsets[i] = (i - 1) * limit
       /\ (/\ k > 0
           /\ pg.last.kind = "dict"
           /\ \/ pg.last.n = 0
              \/ pg.last.total /= None /\ pg.offsets[k] + limit >= pg.last.total[1])
          => pg.pc /= "loop"

\* C17 witness: fetch_smartrecruiters requested offsets 0 and 100 and stopped at the
\* second page, a full one, because 100 + 100 reaches the total of 101.
OffsetsAscendAndStopWitness ==
    /\ pg.pc = "done"
    /\ pg.conn = "smartrecruiters"
    /\ pg.offsets = <<0, SmartRecruitersLimit>>
    /\ pg.last.n = SmartRecruitersLimit
    /\ pg.last.total = Some(SmartRecruitersLimit + 1)

\* the tasks of the batch under way that raised: collected, with no result
RaisedTasks ==
    {t \in Tasks : t \notin pending /\ \A i \in DOMAIN results : results[i].task /= t}

\* C18: while a batch is under way, whichever tasks raised, all_jobs holds the kept
\* postings of every task that returned and errors[source] counts the tasks of the
\* source that raised; the merge pass handles every posting of all_jobs and the
\* postings it merges are stored.
RaisingTaskIsolated ==
    pc \in {"fetching", "merging"} =>
        /\ all_jobs = Flatten([i \in DOMAIN results |-> results[i].jobs])
        /\ \A s \in SourceNames : errors[s] = Cardinality({t \in RaisedTasks : t.source = s})
        /\ PassDone =>
               /\ Len(outcomes) = Len(all_jobs)
               /\ \A i \in DOMAIN all_jobs :
                     outcomes[i] \in {"insert", "update"} =>
                         /\ Key(all_jobs[i]) \in Keys(store)
                         /\ RowOf(store, Key(all_jobs[i])).last_seen_at = now_seen_iso

\* C18 witness: the lever task raised before the webscrape task completed, and the
\* merge pass stored the posting the webscrape task returned.
RaisingTaskIsolatedWitness ==
    /\ PassDone
    /\ errors["lever"] = 1
    /\ errors["webscrape"] = 0
    /\ Len(results) = 1
    /\ results[1].task.source = "webscrape"
    /\ results[1].jobs /= <<>>
    /\ outcomes = <<"insert">>
    /\ Key(all_jobs[1]) \in Keys(store) \ Keys(store0)

\* C19: a token validator returns (True, "ok") exactly when the endpoint answers with well-formed
\* data whose posting list holds a posting that passes job_passes_filters, and (False,
\* "no_matching_jobs") exactly when the well-formed list is non-empty and holds no such posting,
\* however long the list is
BoardOf(v) ==
    CASE v.connector = "greenhouse" -> v.reply.jobs
      [] v.connector = "lever" -> v.reply.list
      [] v.connector = "smartrecruiters" -> v.reply.content
      [] v.connector = "ashby" -> v.reply.jobs
      [] OTHER -> JAbsent

WellFormed(v) ==
    /\ v.reply.ok
    /\ v.connector = "ashby" => v.reply.page_ok
    /\ v.reply.top = (IF v.connector = "lever" THEN "list" ELSE "dict")
    /\ BoardOf(v).t = "list"
    /\ v.connector = "smartrecruiters" => v.reply.totalFound.t = "int"

HoldsPassing(list) == \E i \in 1..list.n : passes_of[ItemAt(list, i)]

ValidIffSomePostingPasses ==
    val.connector /= "none" =>
        /\ val.result = Verdict(TRUE, "ok") <=> (WellFormed(val) /\ HoldsPassing(BoardOf(val)))
        /\ val.result = Verdict(FALSE, "no_matching_jobs")
             <=> (WellFormed(val) /\ BoardOf(val).n > 0 /\ ~HoldsPassing(BoardOf(val)))

\* C20: find_career_page requests the candidates in the order of url_patterns (variant by
\* variant, template by template); it returns the first candidate that answers 200 with a page
\* passing the career page heuristic and requests none after it; a candidate that fails never
\* ends the search; None is returned only when every candidate has failed
FirstMatchWins ==
    LET urls == url_patterns_of[finder.company_name]
        LastQualified(url) ==
            /\ finder.probe.kind = "response" /\ finder.probe.status = 200
            /\ _is_career_page(Chars[finder.probe.html], url)
    IN /\ finder.in_order
       /\ finder.result = None /\ finder.failed > 0 => ~LastQualified(urls[finder.failed])
       /\ finder.last <= finder.failed + 1
       /\ finder.pc = "probing" => finder.result = None /\ finder.i = finder.failed + 1
       /\ finder.pc = "done" =>
            \/ /\ finder.result = None
               /\ finder.failed = Len(urls)
            \/ /\ finder.failed < Len(urls)
               /\ finder.result = Some(urls[finder.failed + 1])
               /\ finder.last = finder.failed + 1
               /\ LastQualified(finder.result[1])

\* a candidate of the second name variant is returned after every candidate before it failed,
\* one of them with a 200 page that the heuristic turned down
FirstMatchWinsWitness ==
    /\ finder.pc = "done"
    /\ finder.result /= None
    /\ finder.failed > Len(UrlTemplates)

\* C21: job_passes_filters(title, location) is true exactly when the normalised title contains a
\* role phrase, contains no exclude keyword, and the location is empty or is US-based or remote;
\* "Senior Data Scientist" in "Remote" passes and "Data Analyst Intern" fails
TitleHolds(title, phrases) ==
    \E k \in phrases : HasSubstring(normalize_text(title), normalize_text(k))

FilterVerdictAsStated ==
    filt.called =>
        /\ filt.result <=>
              /\ TitleHolds(filt.title, ROLE_KEYWORDS)
              /\ ~TitleHolds(filt.title, EXCLUDE_KEYWORDS)
              /\ filt.location = "" \/ location_is_us_or_remote(filt.location)
        /\ filt.title = "Senior Data Scientist" /\ filt.location = "Remote" => filt.result
        /\ filt.title = "Data Analyst Intern" => ~filt.result

\* the two postings the statement names have been judged, and so has one whose title holds a
\* role phrase and, inside a longer word, an exclude keyword
FilterVerdictAsStatedWitness ==
    /\ filt.called
    /\ filt.title = "International Data Analyst"
    /\ filt.location = "Austin, TX"
    /\ ~filt.result

\* C25: the feed lists dated postings before undated ones, then by score descending, then by
\* recency (posted date, then last seen), whatever the store holds
FeedRowBefore(a, b) ==
    LET ka == IF a.posted_at = None THEN 1 ELSE 0
        kb == IF b.posted_at = None THEN 1 ELSE 0
    IN \/ ka < kb
       \/ ka = kb /\ a.score > b.score
       \/ ka = kb /\ a.score = b.score /\ OrderByBefore(a, b)

FeedOrderedByScore ==
    feed.queried =>
        \A i, k \in DOMAIN feed.rows : i < k => ~FeedRowBefore(feed.rows[k], feed.rows[i])

\* C26: no step of any interleaving of wait and defer calls lowers a host's next-allowed
\* time; defer(key, d) with d > 0 leaves max(current value, now + d) under key, does not sleep
\* and touches no other host's entry; defer with d <= 0 changes nothing
DeferNeverLowers ==
    [][/\ \A k \in DOMAIN next_allowed :
             k \in DOMAIN next_allowed' /\ next_allowed'[k] >= next_allowed[k]
       /\ dfr'.n /= dfr.n =>
             /\ mono' = mono
             /\ \A c \in Callers : call'[c].pc = call[c].pc /\ call'[c].wake = call[c].wake
             /\ IF dfr'.delay_sec > 0
                THEN /\ DOMAIN next_allowed' = DOMAIN next_allowed \cup {dfr'.key}
                     /\ next_allowed'[dfr'.key]
                          = Max(Get(next_allowed, dfr'.key, 0), mono + dfr'.delay_sec)
                     /\ \A k \in DOMAIN next_allowed :
                          k /= dfr'.key => next_allowed'[k] = next_allowed[k]
                ELSE next_allowed' = next_allowed]_vars

\* a defer with a positive delay found a later time stored for its host and left it, while
\* the other host has an entry of its own
DeferNeverLowersWitness ==
    /\ dfr.n > 0
    /\ dfr.delay_sec > 0
    /\ dfr.kept
    /\ dfr.key \in DOMAIN next_allowed
    /\ \E k \in DOMAIN next_allowed : k /= dfr.key

\* the hostname a call's URL names, for a URL that passes the scheme and hostname tests
HostOf(url) == urlparse[url].hostname[1]

HasHost(url) ==
    /\ urlparse[url].scheme \in {"http", "https"}
    /\ urlparse[url].hostname \notin {None, Some("")}

\* C27: a resolution that fails rejects the call and leaves the verdict cache as it was, so
\* that the next validation of the host resolves again; the cache changes only in a step
\* whose resolution succeeded, by the verdict of that resolution; and a validation that
\* finds a verdict stored returns it without resolving
FailedResolutionNotCached ==
    [][/\ \A c \in Callers :
             /\ (call[c].pc = "resolve" /\ call'[c].pc /= "resolve" /\ ~dns.ok) =>
                    /\ call'[c].pc = "done"
                    /\ call'[c].result = Rejected
                    /\ host_cache' = host_cache
             /\ (call[c].pc = "idle" /\ call'[c].pc /= "idle" /\ HasHost(call'[c].url)) =>
                    IF HostOf(call'[c].url) \in DOMAIN host_cache
                    THEN /\ call'[c].resolved = None
                         /\ IF host_cache[HostOf(call'[c].url)]
                            THEN call'[c].pc = "attempt"
                            ELSE call'[c].pc = "done" /\ call'[c].result = Rejected
                    ELSE call'[c].pc = "resolve"
       /\ host_cache' /= host_cache =>
             \E c \in Callers :
                /\ call[c].pc = "resolve"
                /\ dns.ok
                /\ call'[c].resolved = Some(dns)
                /\ DOMAIN host_cache' = DOMAIN host_cache \cup {HostOf(call[c].url)}
                /\ host_cache'[HostOf(call[c].url)] = (call'[c].pc = "attempt")
                /\ \A h \in DOMAIN host_cache :
                      h /= HostOf(call[c].url) => host_cache'[h] = host_cache[h]]_vars

\* one worker's resolution failed and its call was rejected; the other worker's validation
\* of the same host resolved, and its verdict is the stored one
FailedResolutionNotCachedWitness ==
    /\ call["w1"].resolved = Some(DnsError)
    /\ call["w1"].result = Rejected
    /\ call["w2"].url = call["w1"].url
    /\ call["w2"].resolved = Some(SafeAnswer)
    /\ HostOf(call["w2"].url) \in DOMAIN host_cache
    /\ host_cache[HostOf(call["w2"].url)]

\* C28: the store changes only in a loop iteration of upsert_jobs; while the fetch tasks are
\* being collected it is the store the run began with; the upsert_jobs call is under way
\* only when every task has been collected, its argument is the kept postings of the tasks
\* that returned, and a change of the store is that call's merge of one of them
SoleWriterAfterAllTasks ==
    /\ store /= store_prev =>
          /\ stepped
          /\ pc = "merging"
          /\ store = UpsertJob(store_prev, all_jobs[idx - 1], now_seen_iso)
    /\ pc = "fetching" => store = store0 /\ store = store_prev
    /\ pc = "merging" =>
          /\ pending = {}
          /\ {results[i].task : i \in DOMAIN results} \cup RaisedTasks = Tasks
          /\ Len(results) = Cardinality({results[i].task : i \in DOMAIN results})
          /\ all_jobs = Flatten([i \in DOMAIN results |-> results[i].jobs])

\* two tasks returned postings, the upsert_jobs call that followed has handled them all and
\* the store differs from the one the run began with
SoleWriterAfterAllTasksWitness ==
    /\ PassDone
    /\ Len(results) >= 2
    /\ \A i \in DOMAIN results : results[i].jobs /= <<>>
    /\ store /= store0
    /\ stepped

\* C23: every posting a connector returns, relabelled by fetch_webscrape or not, passes
\* job_passes_filters on the title and the location it carries
ReturnedPostingsPassFilter ==
    \A i \in DOMAIN cf.jobs : filter_of[cf.jobs[i].title, cf.jobs[i].location]

\* an anchor reader was given a posting that fails the filter and one that passes, its
\* title padded with whitespace, and returned the second alone, relabelled
ReturnedPostingsPassFilterWitness ==
    /\ cf.conn = "fetch_icims_from_career_url"
    /\ cf.relabelled
    /\ Len(cf.items) = 2
    /\ cf.items[1].title = "Data Analyst Intern"
    /\ cf.items[2].title = "  MACHINE   Learning Engineer "
    /\ cf.items[2].location = "Berlin, Germany"
    /\ Len(cf.jobs) = 1
    /\ cf.jobs[1].title = "MACHINE Learning Engineer"
    /\ cf.jobs[1].company = "Acme Corp"

\* the requests of the call under way that a scraping connector or the generic scrape sent
ScrapingRequests == {r \in ws.requests : r.by /= "fetch_greenhouse"}

PacedByLargerOfIntervalAndCrawlDelay ==
    \A r \in ws.requests :
        LET declared == robots[BaseOf[ws.career_url][1]].crawl_delay
        IN /\ r.interval = Max(ws.configured, OrZero(declared))
           /\ declared = None => r.interval = ws.configured

\* a request went out paced by a crawl-delay larger than the configured interval, and a
\* later one of the same call by the same interval
PacedByLargerOfIntervalAndCrawlDelayWitness ==
    /\ Cardinality(ws.requests) >= 2
    /\ ws.configured = 1
    /\ robots[BaseOf[ws.career_url][1]].crawl_delay = Some(MaxInterval + 1)
    /\ \A r \in ws.requests : r.interval = MaxInterval + 1

\* C29: a call whose career URL belongs to a known ATS sends no generic page-scrape
\* request for it, whatever the connector returns
KnownAtsNeverScraped ==
    KnownAts(ws.career_url) /= None =>
        \A r \in ws.requests : r.by /= "fetch_webscrape"

\* C30: the anchor heuristics run only on a page with no JSON-LD JobPosting, the result of
\* a page with structured postings comes from them alone, and no two postings returned
\* share a job_id
AnchorsOnlyWithoutJsonLd ==
    ws.page /= None =>
        /\ ws.anchors => ws.page[1].json_ld = <<>>
        /\ \A i, k \in DOMAIN ws.result : i /= k => ws.result[i].job_id /= ws.result[k].job_id

\* the fetched postings extend_limited is to keep, by position: those not posted before
\* now - days_back_posted days, the undated ones unless require_posted_at is set
Survivors ==
    {i \in DOMAIN kl.jobs :
        LET posted == kl.jobs[i].posted_at
            days == kl.opts.days_back_posted
        IN /\ ~(kl.opts.require_posted_at /\ posted = None)
           /\ ~(/\ days /= None /\ days[1] > 0 /\ posted /= None
                /\ posted[1].wall - posted[1].off < clock - days[1] * TicksPerDay)}

\* C31: extend_limited passes on the first max_per_source survivors of the recency filter,
\* in the order returned, all the survivors without a cap, and the whole list when no
\* option is given
KeptSurvivorsUpToCap ==
    kl.pc = "called" =>
        LET cap == kl.opts.max_per_source
            n == IF cap /= None /\ cap[1] > 0 /\ cap[1] < Cardinality(Survivors)
                 THEN cap[1] ELSE Cardinality(Survivors)
        IN /\ Len(kl.kept) = n
           /\ \A k \in 1..n :
                kl.kept[k] = kl.jobs[CHOOSE i \in Survivors :
                                        Cardinality({m \in Survivors : m <= i}) = k]
           /\ (/\ kl.opts.days_back_posted \in {None, Some(0)}
               /\ kl.opts.max_per_source \in {None, Some(0)}
               /\ ~kl.opts.require_posted_at) => kl.kept = kl.jobs

\* a posting older than the cutoff was dropped ahead of a recent one, which the cap let pass
KeptSurvivorsUpToCapWitness ==
    /\ kl.pc = "called"
    /\ kl.cutoff /= None
    /\ kl.opts.max_per_source = Some(1)
    /\ Len(kl.jobs) = 2
    /\ kl.jobs[1].posted_at /= None
    /\ kl.kept = <<kl.jobs[2]>>

\* C40: a malformed or stale posting leaves the store as it was, the four counts of a
\* finished upsert_jobs call sum to the length of its list, and inserted is the number of
\* rows the call added
CountsAccountForList ==
    /\ (stepped /\ LastOutcome \in {"skipped_invalid", "skipped_stale"}) => store = store_prev
    /\ PassDone =>
          /\ counts.inserted + counts.updated_existing + counts.skipped_stale
                + counts.skipped_invalid = Len(all_jobs)
          /\ counts.skipped_invalid = CountOf(outcomes, "skipped_invalid")
          /\ counts.skipped_stale = CountOf(outcomes, "skipped_stale")
          /\ counts.inserted = Cardinality(Keys(store)) - Cardinality(Keys(store0))

\* what holds of it: the skipped postings leave the store alone and the counts sum up
CountsSumToLength ==
    /\ (stepped /\ LastOutcome \in {"skipped_invalid", "skipped_stale"}) => store = store_prev
    /\ PassDone =>
          /\ counts.inserted + counts.updated_existing + counts.skipped_stale
                + counts.skipped_invalid = Len(all_jobs)
          /\ counts.skipped_invalid = CountOf(outcomes, "skipped_invalid")
          /\ counts.skipped_stale = CountOf(outcomes, "skipped_stale")

\* a response that is no transient failure: a 4xx status other than 429, or a 2xx body that
\* is not JSON answered to one of the JSON functions
NonTransientFailure(cur) ==
    /\ cur.fn \in {"http_get_json_with_retry", "http_post_json_with_retry"}
    /\ \/ cur.resp.kind = "404"
       \/ cur.resp.kind = "200" /\ ~cur.resp.json

\* C37: the call that receives a non-transient failure raises it next, HTTPError for the
\* status and ValueError for the body, with no request sent after it, whatever max_retries
\* and the attempt are; every attempt sends one request, and a call that ended sends none
NonTransientFailureNotRetried ==
    [][\A c \in Callers :
          LET cur == call[c]
          IN /\ (cur.pc = "handle" /\ NonTransientFailure(cur) /\ call'[c] /= cur) =>
                   /\ call'[c].pc = "done"
                   /\ call'[c].result =
                         Raised(IF cur.resp.kind = "404" THEN "HTTPError" ELSE "ValueError")
                   /\ call'[c].sent = cur.sent
                   /\ cur.sent = cur.attempt + 1
             /\ cur.pc = "done" => call'[c].sent = cur.sent]_vars

\* a call allowed retries ended with the HTTPError of the 404 its first request was answered
NonTransientFailureNotRetriedWitness ==
    /\ call["w1"].pc = "done"
    /\ call["w1"].max_retries = MaxRetries
    /\ call["w1"].resp.kind = "404"
    /\ call["w1"].sent = 1
    /\ call["w1"].result = Raised("HTTPError")

\* C38: a thread sleeping in wait does not hold the lock, and next to it a thread whose
\* wait or defer is for another key with an open window gets the lock when it asks for it
\* and, holding it, returns from its call in the next step
SleeperHoldsNoLock ==
    \A t \in Threads :
        tl.th[t].pc = "sleeping" =>
            /\ tl.lock /= t
            /\ \A u \in Threads \ {t} :
                 (tl.th[u].key /= tl.th[t].key
                    /\ Granted(tl.now, tl.next_allowed, tl.th[u].key)) =>
                     /\ tl.th[u].pc = "acquire" => ENABLED LockAcquire(u)
                     /\ tl.th[u].pc = "locked" => ENABLED (LockBody(u) /\ tl'.th[u].pc = "idle")

\* while t1 sleeps for one key, t2 holds the lock in a wait for the other key
SleeperHoldsNoLockWitness ==
    /\ tl.th["t1"].pc = "sleeping"
    /\ tl.th["t1"].wake > tl.now
    /\ tl.th["t2"].pc = "locked"
    /\ tl.th["t2"].op = "wait"
    /\ tl.th["t2"].key /= tl.th["t1"].key

\* C39: under fair scheduling every call of wait returns, the threads making finitely many
\* calls, and the lock is only ever held by a thread in the body of a with block, which
\* leaves it in its next step
WaitEventuallyReturns ==
    /\ \A t \in Threads : (tl.th[t].op = "wait") ~> (tl.th[t].pc = "idle")
    /\ [](tl.lock /= Free => tl.th[tl.lock].pc = "locked" /\ ENABLED LockBody(tl.lock))

\* a wait slept, with a call of the other thread for the same key under way, and has
\* been taken up again
WaitEventuallyReturnsWitness ==
    /\ tl.th["t1"].op = "wait"
    /\ tl.th["t1"].pc = "acquire"
    /\ tl.now > 0
    /\ tl.th["t2"].pc = "locked"
    /\ tl.th["t2"].key = tl.th["t1"].key

\* C32: a run of pipeline_update collects with the first_run_days window exactly when no
\* run before it has completed, and with daily_days otherwise; the state file says
\* initialized, with last_run_at, only once a run has gone through its collection and
\* both exports, and a run that raised leaves the file as it found it
FirstRunWindowUntilCompleted ==
    /\ pl.pc = "running" =>
          /\ pl.days_back = (IF pl.completed = 0 THEN FirstRunDays ELSE DailyDays)
          /\ pl.file = pl.file0
          /\ pl.passed /= None => pl.passed[1].days_back_posted = Some(pl.days_back)
    /\ (pl.file.exists /\ pl.file.json /= None /\ Initialized(pl.file.json[1])) =>
          /\ pl.completed > 0
          /\ pl.wrote_after = Len(PipelineStages)
          /\ pl.file.json[1].last_run_at /= None
    /\ pl.completed > 0 => (pl.file.json /= None /\ Initialized(pl.file.json[1]))
    /\ pl.raised => pl.file = pl.file0

\* a run found a corrupted file and raised, and the next run collected with the first-run
\* window again
FirstRunWindowUntilCompletedWitness ==
    /\ pl.runs = 2
    /\ pl.pc = "running"
    /\ pl.stage = 1
    /\ pl.file = CorruptFile
    /\ pl.passed[1].days_back_posted = Some(FirstRunDays)

\* a run after a completed one collected with the daily window
DailyWindowAfterCompletedRun ==
    /\ pl.completed = 1
    /\ pl.pc = "running"
    /\ pl.stage = 1
    /\ pl.passed[1].days_back_posted = Some(DailyDays)

\* the positions of a token in a list of tokens
PositionsIn(list, tok) == {i \in DOMAIN list : list[i] = tok}

\* C33: in the files _run_validator_parallel writes every token of the master list stands
\* once, in the valid list when its validator returned (True, reason) and otherwise in the
\* invalid list with the reason returned, http_{code} for an HTTPError or exception for
\* another fault, whatever the order of completion; the valid list keeps the order of the
\* master list
EveryTokenInOneList ==
    vp.pc = "written" =>
        /\ \A n \in DOMAIN vp.came :
              LET tok == vp.came[n].tok
                  outcome == vp.came[n].outcome
                  bad == {i \in DOMAIN vp.invalid_out : vp.invalid_out[i][1] = tok}
              IN IF outcome.kind = "pair" /\ outcome.ok
                 THEN Cardinality(PositionsIn(vp.valid_out, tok)) = 1 /\ bad = {}
                 ELSE /\ PositionsIn(vp.valid_out, tok) = {}
                      /\ Cardinality(bad) = 1
                      /\ \A i \in bad :
                           vp.invalid_out[i][2] =
                              (CASE outcome.kind = "pair" -> outcome.reason
                                 [] outcome.kind = "HTTPError" /\ outcome.code = Some("404") -> "http_404"
                                 [] outcome.kind = "HTTPError" /\ outcome.code = None -> "http_None"
                                 [] OTHER -> "exception")
        /\ {vp.came[n].tok : n \in DOMAIN vp.came} = {vp.tokens[i] : i \in DOMAIN vp.tokens}
        /\ Len(vp.valid_out) + Len(vp.invalid_out) = Len(vp.tokens)
        /\ \A i, k \in DOMAIN vp.valid_out :
              i < k => \A a \in PositionsIn(vp.tokens, vp.valid_out[i]),
                          b \in PositionsIn(vp.tokens, vp.valid_out[k]) : a < b

\* the second token of the master list completed first and is valid, as is the first
EveryTokenInOneListWitness ==
    /\ vp.pc = "written"
    /\ Len(vp.tokens) >= 2
    /\ vp.came[1].tok = vp.tokens[2]
    /\ vp.valid_out = <<vp.tokens[1], vp.tokens[2]>>

\* C34: a company for which a discovery pass has recorded a career URL is mapped by the
\* mapping file after every later pass
MappingDurable ==
    cm.pc = "idle" => \A company \in cm.recorded : company \in DOMAIN load_career_url_mappings(cm.mappings)

\* what holds instead: the mapping file holds the companies the last pass verified, no other
MappingOfLastPass ==
    cm.pc = "idle" =>
        DOMAIN load_career_url_mappings(cm.mappings) = {cm.valid[i][1] : i \in DOMAIN cm.valid}

\* the addresses of the records that a network of the discovery validator's list holds
BlockedRecords(records) ==
    {i \in DOMAIN records.addrs :
        \E network \in VALIDATOR_BLOCKED_NETWORKS : InNetwork(records.addrs[i], network)}

\* C35: safe_get rejects the URL and sends no request whenever one of the addresses its
\* hostname resolves to is blocked, whichever place it has among them
GatewayRejectsAnyBlockedRecord ==
    (sg.pc /= "idle" /\ BlockedRecords(sg.records) /= {}) =>
        /\ sg.requests = <<>>
        /\ ~sg.result.success

\* what holds instead: no request when the first IPv4 address is blocked
GatewayRejectsFirstBlockedRecord ==
    (sg.pc /= "idle" /\ gethostbyname(sg.records) /= None
        /\ \E network \in VALIDATOR_BLOCKED_NETWORKS : InNetwork(gethostbyname(sg.records)[1], network)) =>
        /\ sg.requests = <<>>
        /\ ~sg.result.success

\* C36: every request of a call, those that follow a redirect included, goes to a host
\* that passed validate_url before the request was sent
RequestsOnlyToValidatedHosts ==
    \A i \in DOMAIN sg.requests : sg.requests[i].host \in sg.validated

====
